---- MODULE Spec2Model ----
(***************************************************************************)
(* The generation-update engine of evo-grid (world-grid/src/lib.rs):       *)
(* WorldGrid::update with its double buffer, the per-row RNG fan-out and   *)
(* the row-parallel per-cell pass, driven by the worlds of the repository  *)
(* (ConwayGridCell, EvoSubstanceCell, EvoGridCell) as cell types.          *)
(*                                                                         *)
(* A Vec is a sequence; the element with (0-based) index i is v[i + 1].    *)
(* An Option is a sequence of length 0 (None) or 1 (Some).                 *)
(***************************************************************************)
EXTENDS Integers, Sequences, FiniteSets, TLC

VARIABLES
    size,         \* WorldGrid.size: [width, height]
    kind,         \* the cell type C the grid is instantiated with
    sources,      \* EvoWorld.sources: Vec<SubstanceSource> (empty for other worlds)
    cells,        \* WorldGrid.cells.cells: the "current" buffer
    next_cells,   \* WorldGrid.next_cells.cells: the "next" buffer
    rand,         \* the caller's Option<Random> handed to update
    pc,           \* the statement of WorldGrid::update about to run, or "idle"
    row_rands,    \* the Vec<Option<Random>> made by multi_fork_option
    row_col,      \* per row task (0-based row r at r + 1): the next column of update_row
    updates,      \* number of completed update calls
    invocations,  \* history: per Loc, the GridCell::update calls of the running update
    steps,        \* history: the steps of the running (or last) update, in order
    callCells,    \* history: the current buffer when the running update was called
    callRand,     \* history: the caller's stream when the running update was called
    passCells,    \* history: the current buffer when the running per-cell pass began
    seedCells,    \* history: the seeded grid
    seedRand,     \* history: the caller's stream after seeding
    lastOp,       \* history: the last operation made outside update since the
                  \* last update call, with its arguments and its outcome
    app           \* the AppEventHandler animating the world, with its App

vars == <<size, kind, sources, cells, next_cells, rand, pc, row_rands, row_col,
          updates, invocations, steps, callCells, callRand, passCells, seedCells,
          seedRand, lastOp, app>>

(***************************************************************************)
(* Bounds of the model.                                                    *)
(***************************************************************************)
MaxWidth == 3
MaxHeight == 3
MaxUpdates == 2
MaxSeed == 1
RngMod == 16
MaxOps == 1
MaxParents == 3
MaxForks == 2
MaxDraws == 3

\* The most cells a ConwayWorld or an EvoConwayWorld is seeded with.
MaxSeeded == 4

\* The most world.update calls the animation loop is followed through.
MaxGenerations == 3

(***************************************************************************)
(* Option<T>                                                               *)
(***************************************************************************)
None == <<>>
Some(x) == <<x>>
IsSome(o) == o # <<>>
Unwrap(o) == o[1]

Min(a, b) == IF a < b THEN a ELSE b

(***************************************************************************)
(* Coordinates: GridSize, Loc.                                             *)
(***************************************************************************)
GridSize(w, h) == [width |-> w, height |-> h]

\* Variant of is_empty: only a size with no width and no height is empty.
is_empty_both(sz) == sz.width = 0 /\ sz.height = 0

\* GridSize::is_empty
is_empty(sz) == sz.width = 0 \/ sz.height = 0

area(sz) == sz.width * sz.height

Loc(r, c) == [row |-> r, col |-> c]

\* Variant of grid_index: only the flat index is checked against the area.
grid_index_flat_check(loc, sz) ==
    IF loc.row * sz.width + loc.col < sz.width * sz.height
    THEN Some(loc.row * sz.width + loc.col)
    ELSE None

\* Variant of grid_index: column-major.
grid_index_column_major(loc, sz) ==
    IF loc.row < sz.height /\ loc.col < sz.width
    THEN Some(loc.col * sz.height + loc.row)
    ELSE None

\* Loc::grid_index
grid_index(loc, sz) ==
    IF loc.row < sz.height /\ loc.col < sz.width
    THEN Some(loc.row * sz.width + loc.col)
    ELSE None

\* The Locs of a grid, row < height and col < width.
Locs(sz) == {Loc(r, c) : r \in 0..(sz.height - 1), c \in 0..(sz.width - 1)}

(***************************************************************************)
(* Random.  SmallRng is a deterministic generator of the rand crate; a     *)
(* stream is its state, a residue modulo RngMod.  Each draw reads the      *)
(* state and advances it.                                                  *)
(***************************************************************************)
RngAdvance(s) == (5 * s + 3) % RngMod

\* Variant of fork: the child is seeded from a source all streams share, as
\* Random::new is.
fork_shared(r) ==
    [child |-> (7 * r + 1 + (IF lastOp.op = "fork"
                             THEN Len(lastOp.a_forks) + Len(lastOp.b_forks)
                             ELSE 0)) % RngMod,
     parent |-> RngAdvance(r)]

\* Random::fork: the child is seeded from the parent's output, which
\* advances the parent.
fork(r) == [child |-> (7 * r + 1) % RngMod, parent |-> RngAdvance(r)]

\* Variant of next_bool: the draw succeeds when it is at most p.
next_bool_inclusive(r, p) ==
    IF p[1] = p[2]
    THEN [value |-> TRUE, rand |-> r]
    ELSE [value |-> r * p[2] <= p[1] * RngMod, rand |-> RngAdvance(r)]

\* Random::next_bool(p), p = <<numerator, denominator>>.  Bernoulli of the
\* rand crate answers p = 1 without a draw; otherwise it draws once and
\* compares the draw with p.
next_bool(r, p) ==
    IF p[1] = p[2]
    THEN [value |-> TRUE, rand |-> r]
    ELSE [value |-> r * p[2] < p[1] * RngMod, rand |-> RngAdvance(r)]

\* Variant of multi_fork_option: rand is forked once and every entry is that
\* fork.
multi_fork_option_once(rnd, count) ==
    IF IsSome(rnd) /\ count > 0
    THEN LET f == fork(Unwrap(rnd))
         IN  [forks |-> [i \in 1..count |-> Some(f.child)], rand |-> Some(f.parent)]
    ELSE [forks |-> [i \in 1..count |-> None], rand |-> rnd]

\* Variant of multi_fork_option: an absent stream is replaced by a fresh one.
RECURSIVE multi_fork_option_default(_, _)
multi_fork_option_default(rnd, count) ==
    IF count = 0
    THEN [forks |-> <<>>, rand |-> rnd]
    ELSE LET before == multi_fork_option_default(rnd, count - 1)
             f == fork(IF IsSome(before.rand) THEN Unwrap(before.rand) ELSE 0)
         IN  [forks |-> Append(before.forks, Some(f.child)), rand |-> Some(f.parent)]

\* Random::multi_fork_option: count forks taken in index order.
RECURSIVE multi_fork_option(_, _)
multi_fork_option(rnd, count) ==
    IF count = 0
    THEN [forks |-> <<>>, rand |-> rnd]
    ELSE LET before == multi_fork_option(rnd, count - 1)
         IN  IF IsSome(before.rand)
             THEN LET f == fork(Unwrap(before.rand))
                  IN  [forks |-> Append(before.forks, Some(f.child)),
                       rand |-> Some(f.parent)]
             ELSE [forks |-> Append(before.forks, None), rand |-> None]

(***************************************************************************)
(* WorldGridCells<C>: flat, row-major storage.                             *)
(***************************************************************************)
\* C::default() of each cell type.
DefaultCell(k) ==
    IF k \in {"Conway", "Lone"}
    THEN [alive |-> FALSE]
    ELSE IF k = "EvoConway"
    THEN [creature |-> None]
    ELSE [creature |-> None, substance |-> None]

WorldGridCells_new(sz, k) == [i \in 1..area(sz) |-> DefaultCell(k)]

\* WorldGridCells::new with its assert!(!size.is_empty()).
WorldGridCells_new_checked(sz, k) ==
    IF is_empty(sz)
    THEN [panic |-> TRUE]
    ELSE [panic |-> FALSE, cells |-> WorldGridCells_new(sz, k)]

\* WorldGrid::new: assert!(!size.is_empty()), then the two buffers.
WorldGrid_new(sz, k) ==
    IF is_empty(sz)
    THEN [panic |-> TRUE]
    ELSE LET current == WorldGridCells_new_checked(sz, k)
             next == WorldGridCells_new_checked(sz, k)
         IN  IF current.panic \/ next.panic
             THEN [panic |-> TRUE]
             ELSE [panic |-> FALSE, size |-> sz, cells |-> current.cells,
                   next_cells |-> next.cells]

\* WorldGridCells::cell: bounds-checked access.
cell(v, sz, loc) ==
    LET i == grid_index(loc, sz)
    IN  IF IsSome(i) THEN Some(v[Unwrap(i) + 1]) ELSE None

\* Index<Loc>: unwrap_or_else(panic).  No access of the engine is out of
\* bounds; an out-of-bounds Loc makes the evaluation fail.
index(v, sz, loc) == Unwrap(cell(v, sz, loc))

\* Index<Loc> and IndexMut<Loc>: the closure of unwrap_or_else runs, and
\* panics, when cell / cell_mut returned None.
index_panics(v, sz, loc) == cell(v, sz, loc) = None

\* Variant of cell_mut: the slot is looked up without the bounds check of
\* grid_index.
cell_mut_unchecked(v, sz, loc) ==
    IF loc.row * sz.width + loc.col < Len(v)
    THEN Some(loc.row * sz.width + loc.col)
    ELSE None

\* WorldGridCells::cell_mut: the flat index of the slot the returned
\* reference designates.
cell_mut(v, sz, loc) == grid_index(loc, sz)

\* IndexMut<Loc> followed by an assignment of c.
index_mut_set(v, sz, loc, c) ==
    [v EXCEPT ![Unwrap(grid_index(loc, sz)) + 1] = c]

\* Variant of copy_from: the source is appended to the target.
copy_from_append(target, source) == target \o source

\* Variant of copy_from: no snapshot is taken.  (EvoGridCell's transitions
\* unwrap what the snapshot put into next, so its grids keep the snapshot.)
copy_from_none(target, source) ==
    IF kind = "Evo" THEN [i \in 1..Len(target) |-> source[i]] ELSE target

\* WorldGridCells::copy_from(source): copy_from_slice.
copy_from(target, source) == [i \in 1..Len(target) |-> source[i]]

\* copy_from_slice panics when the two slices differ in length.
copy_from_panics(target, source) == Len(target) # Len(source)

\* Variant of par_rows_mut: the buffer is cut into chunks of `height` cells.
par_rows_mut_by_height(v, sz) ==
    [r \in 1..(Len(v) \div sz.height) |->
        SubSeq(v, (r - 1) * sz.height + 1, r * sz.height)]

\* WorldGridCells::par_rows_mut: chunks_exact_mut(width); chunk r (0-based)
\* is at r + 1.
par_rows_mut(v, sz) ==
    [r \in 1..(Len(v) \div sz.width) |->
        SubSeq(v, (r - 1) * sz.width + 1, r * sz.width)]

\* WorldGridCells::rows_mut: the same chunks, handed out one after another.
rows_mut(v, sz) == par_rows_mut(v, sz)

\* Variant of WithRow: every task writes through the first chunk.
WithRow_first(v, sz, r, row) ==
    [i \in 1..Len(v) |->
        IF (i - 1) \div sz.width = 0 THEN row[((i - 1) % sz.width) + 1] ELSE v[i]]

\* The buffer v after a row task has left `row` in its chunk r (0-based).
WithRow(v, sz, r, row) ==
    [i \in 1..Len(v) |->
        IF (i - 1) \div sz.width = r THEN row[((i - 1) % sz.width) + 1] ELSE v[i]]

(***************************************************************************)
(* Neighborhood<C>                                                         *)
(***************************************************************************)
\* Variant of index_range: the window is not clipped at max.
index_range_unclipped(center, max) ==
    LET lo == IF center = 0 THEN 0 ELSE center - 1
        hi == center + 2
    IN  [i \in 1..(hi - lo) |-> lo + i - 1]

\* Neighborhood::index_range: center.saturating_sub(1)..(center + 2).min(max),
\* as the sequence of its elements.
index_range(center, max) ==
    LET lo == IF center = 0 THEN 0 ELSE center - 1
        hi == Min(center + 2, max)
    IN  [i \in 1..(IF hi > lo THEN hi - lo ELSE 0) |-> lo + i - 1]

\* Variant of for_neighbor_cells: the center is not skipped.
for_neighbor_cells_with_center(center, sz) ==
    LET rows == index_range(center.row, sz.height)
        cols == index_range(center.col, sz.width)
    IN  [k \in 1..(Len(rows) * Len(cols)) |->
            Loc(rows[((k - 1) \div Len(cols)) + 1],
                cols[((k - 1) % Len(cols)) + 1])]

\* Neighborhood::for_neighbor_cells: the Locs whose cells f is called on, in
\* call order.
for_neighbor_cells(center, sz) ==
    LET rows == index_range(center.row, sz.height)
        cols == index_range(center.col, sz.width)
        all  == [k \in 1..(Len(rows) * Len(cols)) |->
                    Loc(rows[((k - 1) \div Len(cols)) + 1],
                        cols[((k - 1) % Len(cols)) + 1])]
    IN  SelectSeq(all, LAMBDA loc : loc # center)

(***************************************************************************)
(* Cell types: the GridCell::update implementations.  Each takes the       *)
(* current cell, the neighbor cells in for_neighbor_cells order, the next  *)
(* cell and the row's Option<Random>, and returns the next cell and the    *)
(* stream.                                                                 *)
(***************************************************************************)
Count(seq, P(_)) == Cardinality({i \in 1..Len(seq) : P(seq[i])})

\* ConwayGridCell::num_live_neighbors
num_live_neighbors(nbrs) == Count(nbrs, LAMBDA n : n.alive)

\* ConwayGridCell::update
ConwayGridCell_update(c, nbrs, next_cell, rnd) ==
    LET neighbors == num_live_neighbors(nbrs)
    IN  [next |-> [next_cell EXCEPT !.alive =
                      IF c.alive
                      THEN 2 <= neighbors /\ neighbors <= 3
                      ELSE neighbors = 3],
         rand |-> rnd]

\* The rule of the end-to-end example: alive next iff exactly 1 live
\* neighbor now, else dead.
LoneGridCell_update(c, nbrs, next_cell, rnd) ==
    [next |-> [next_cell EXCEPT !.alive = (num_live_neighbors(nbrs) = 1)],
     rand |-> rnd]

(***************************************************************************)
(* EvoSubstanceCell (evo-substance-pixels): a cell is                      *)
(* [creature : Option<[enzyme_gene, match_weight_gene]>,                   *)
(*  substance : Option<[code]>]; a BitSet8 is a number in 0..255, the      *)
(* FractionGene value a pair <<numerator, denominator>>.                   *)
(***************************************************************************)
\* BitSet8::is_bit_set
is_bit_set(bits, i) == (bits \div (2 ^ i)) % 2 = 1

\* BitSet8::count_matching_bits: 8 minus the set bits of self ^ other.
count_matching_bits(bits, other) ==
    Cardinality({i \in 0..7 : is_bit_set(bits, i) = is_bit_set(other, i)})

\* Substance::match_degree: count_matching_bits / 8.0
match_degree(substance, bits) == <<count_matching_bits(substance.code, bits), 8>>

\* Creature::survives (evo-substance-pixels): rand.as_mut().unwrap(), then one
\* Bernoulli draw with odds 0.8 or the substance's match degree.
Creature_survives(creature, substance, rnd) ==
    LET odds == IF IsSome(substance)
                THEN match_degree(Unwrap(substance), creature.enzyme_gene)
                ELSE <<4, 5>>
        draw == next_bool(Unwrap(rnd), odds)
    IN  [value |-> draw.value, rand |-> Some(draw.rand)]

\* Variant of can_reproduce: every creature can reproduce.
can_reproduce_always(creature) == TRUE

\* Creature::can_reproduce (evo-substance-pixels): "todo", constantly false.
can_reproduce(creature) == FALSE

\* Creature::merge_parent_genes / maybe_reproduce: the parents are the
\* neighbor creatures that can reproduce; with no parent the result is None.
\* can_reproduce is constantly false, so the merge of a non-empty parent
\* list is never reached; it is left as the first parent's genes.
Creature_maybe_reproduce(nbrs, rnd) ==
    LET parents == SelectSeq(nbrs, LAMBDA n :
                       IsSome(n.creature) /\ can_reproduce(Unwrap(n.creature)))
    IN  [value |-> IF parents = <<>> THEN None ELSE parents[1].creature,
         rand |-> rnd]

\* EvoSubstanceCell::update
EvoSubstanceCell_update(c, nbrs, next_cell, rnd) ==
    IF IsSome(c.creature)
    THEN LET s == Creature_survives(Unwrap(c.creature), c.substance, rnd)
         IN  [next |-> IF ~s.value
                       THEN [next_cell EXCEPT !.creature = None]
                       ELSE next_cell,
              rand |-> s.rand]
    ELSE LET m == Creature_maybe_reproduce(nbrs, rnd)
         IN  [next |-> [next_cell EXCEPT !.creature = m.value], rand |-> m.rand]

(***************************************************************************)
(* EvoGridCell (evo-grid/src/lib.rs): a cell is                            *)
(* [creature : Option<[color, age]>, substance : Option<[color, amount]>]. *)
(* A color is a small number.  An f32 amount is a fixed-point number, the  *)
(* count of 1/8000 units it holds; a product is cut to that grid.          *)
(***************************************************************************)
Amount(num, den) == (num * 8000) \div den

Times(fraction, amount) == (fraction[1] * amount) \div fraction[2]

\* Substance::DONATE_FRACTION, DECAY_FRACTION, MIN_AMOUNT
DONATE_FRACTION == <<1, 10>>
DECAY_FRACTION == <<1, 100>>
MIN_AMOUNT == Amount(1, 100)

\* Substance::new: amount.clamp(0.0, 1.0)
Substance_new(color, amount) ==
    [color |-> color,
     amount |-> IF amount < 0 THEN 0
                ELSE IF amount > Amount(1, 1) THEN Amount(1, 1) ELSE amount]

\* Creature::new (evo-grid)
EvoCreature_new(color) == [color |-> color, age |-> 0]

RECURSIVE SumSeq(_)
SumSeq(seq) == IF seq = <<>> THEN 0 ELSE seq[1] + SumSeq(Tail(seq))

\* Substance::sum_donations: (DONATE_FRACTION / 8.0) * amount of every
\* neighbor substance of the same color with at least MIN_AMOUNT.
sum_donations(nbrs, color) ==
    SumSeq([i \in 1..Len(nbrs) |->
        IF /\ IsSome(nbrs[i].substance)
           /\ Unwrap(nbrs[i].substance).amount >= MIN_AMOUNT
           /\ Unwrap(nbrs[i].substance).color = color
        THEN Times(<<DONATE_FRACTION[1], DONATE_FRACTION[2] * 8>>,
                   Unwrap(nbrs[i].substance).amount)
        ELSE 0])

\* Substance::update_next_cell
Substance_update_next_cell(substance, nbrs, next_cell) ==
    LET next_substance == Unwrap(next_cell.substance)
        received == next_substance.amount + sum_donations(nbrs, substance.color)
    IN  IF received < MIN_AMOUNT
        THEN [next_cell EXCEPT !.substance = None]
        ELSE [next_cell EXCEPT !.substance = Some(
                 [next_substance EXCEPT !.amount = received -
                     Times(<<DONATE_FRACTION[1] * DECAY_FRACTION[2]
                               + DECAY_FRACTION[1] * DONATE_FRACTION[2],
                             DONATE_FRACTION[2] * DECAY_FRACTION[2]>>,
                           substance.amount)])]

\* Creature::update_next_cell (evo-grid)
Creature_update_next_cell(creature, next_cell) ==
    IF creature.age > 3
    THEN [next_cell EXCEPT !.creature = None]
    ELSE [next_cell EXCEPT !.creature =
             Some([Unwrap(next_cell.creature) EXCEPT !.age = @ + 1])]

\* EvoGridCell::update: update_next_creature, then update_next_substance.
EvoGridCell_update(c, nbrs, next_cell, rnd) ==
    LET after_creature ==
            IF IsSome(c.creature)
            THEN Creature_update_next_cell(Unwrap(c.creature), next_cell)
            ELSE next_cell
        after_substance ==
            IF IsSome(c.substance)
            THEN Substance_update_next_cell(Unwrap(c.substance), nbrs, after_creature)
            ELSE after_creature
    IN  [next |-> after_substance, rand |-> rnd]

\* SubstanceSource::update_cells: get_or_insert_default, then overwrite.
SubstanceSource_update_cells(source, v, sz) ==
    index_mut_set(v, sz, source.loc,
                  [index(v, sz, source.loc) EXCEPT !.substance = Some(source.substance)])

\* BitSet8::set_bit
set_bit(bits, i) == IF is_bit_set(bits, i) THEN bits ELSE bits + 2 ^ i

\* Variant of flip_bit: the bit is set, whatever it was.
flip_bit_sets(bits, i) == IF is_bit_set(bits, i) THEN bits ELSE bits + 2 ^ i

\* BitSet8::flip_bit
flip_bit(bits, i) == IF is_bit_set(bits, i) THEN bits - 2 ^ i ELSE bits + 2 ^ i

(***************************************************************************)
(* EvoConwayGridCell (evo-conway-life-pixels/src/main.rs).  A Creature is  *)
(* its two BitSet8s; bit n - 1 of each stands for n neighbor creatures.    *)
(* The crate has its own BitSet8 and BitCountsMap, the BitSet8 with the    *)
(* set_bit and flip_bit above.  EvoConwayWorld holds a Random, so the      *)
(* stream a transition gets is always Some.                                *)
(***************************************************************************)
\* const MUTATION_ODDS: f64 = 0.0
MUTATION_ODDS == <<0, 1>>

\* BitSet8::has_bit
has_bit(bits, i) == (bits \div (2 ^ i)) % 2 = 1

\* Creature::conway: BitSet8::new(0b110), BitSet8::new(0b100)
Creature_conway == [survival_neighbor_counts |-> 6, birth_neighbor_counts |-> 4]

\* Creature::survives
EvoConway_survives(creature, num_neighbors) ==
    num_neighbors > 0 /\ has_bit(creature.survival_neighbor_counts, num_neighbors - 1)

\* Creature::can_reproduce
EvoConway_can_reproduce(creature, num_neighbors) ==
    num_neighbors > 0 /\ has_bit(creature.birth_neighbor_counts, num_neighbors - 1)

\* Creature::update_bit_counts: add_one(i) or add_zero(i) for i in 0..8
update_bit_counts(neighbor_counts, bit_counts) ==
    [ones |-> [i \in 0..7 |->
                 bit_counts.ones[i] + (IF has_bit(neighbor_counts, i) THEN 1 ELSE 0)],
     zeros |-> [i \in 0..7 |->
                  bit_counts.zeros[i] + (IF has_bit(neighbor_counts, i) THEN 0 ELSE 1)]]

\* Creature::parent_bit_counts over the first k neighbors: has_parents and
\* the two BitCountsMaps so far.
RECURSIVE parent_bit_counts_upto(_, _, _)
parent_bit_counts_upto(nbrs, num_neighbors, k) ==
    IF k = 0
    THEN [has_parents |-> FALSE,
          survival |-> [ones |-> [i \in 0..7 |-> 0], zeros |-> [i \in 0..7 |-> 0]],
          birth |-> [ones |-> [i \in 0..7 |-> 0], zeros |-> [i \in 0..7 |-> 0]]]
    ELSE LET before == parent_bit_counts_upto(nbrs, num_neighbors, k - 1)
             neighbor == nbrs[k]
         IN  IF /\ IsSome(neighbor.creature)
                /\ EvoConway_can_reproduce(Unwrap(neighbor.creature), num_neighbors)
             THEN [has_parents |-> TRUE,
                   survival |-> update_bit_counts(
                       Unwrap(neighbor.creature).survival_neighbor_counts, before.survival),
                   birth |-> update_bit_counts(
                       Unwrap(neighbor.creature).birth_neighbor_counts, before.birth)]
             ELSE before

\* Creature::parent_bit_counts
parent_bit_counts(nbrs, num_neighbors) ==
    LET counted == parent_bit_counts_upto(nbrs, num_neighbors, Len(nbrs))
    IN  IF counted.has_parents
        THEN Some([survival |-> counted.survival, birth |-> counted.birth])
        ELSE None

\* BitCountsMap::merge_counts of the crate, r the stream.
EvoConway_merge_counts(num_ones, num_zeros, r) ==
    IF num_ones = 0 THEN [value |-> FALSE, rand |-> r]
    ELSE IF num_zeros = 0 THEN [value |-> TRUE, rand |-> r]
    ELSE next_bool(r, <<num_ones, num_ones + num_zeros>>)

\* BitCountsMap::as_neighbor_counts from bit i on: the vote, then the
\* mutation draw rand.next_bool(MUTATION_ODDS).
RECURSIVE as_neighbor_counts_from(_, _, _, _)
as_neighbor_counts_from(i, counts, result, r) ==
    IF i = 8
    THEN [value |-> result, rand |-> r]
    ELSE LET vote == EvoConway_merge_counts(counts.ones[i], counts.zeros[i], r)
             voted == IF vote.value THEN set_bit(result, i) ELSE result
             draw == next_bool(vote.rand, MUTATION_ODDS)
         IN  as_neighbor_counts_from(i + 1, counts,
                                     IF draw.value THEN flip_bit(voted, i) ELSE voted,
                                     draw.rand)

as_neighbor_counts(counts, r) == as_neighbor_counts_from(0, counts, 0, r)

\* Creature::maybe_reproduce
EvoConway_maybe_reproduce(nbrs, num_neighbors, r) ==
    IF num_neighbors = 0
    THEN [creature |-> None, rand |-> r]
    ELSE LET counts == parent_bit_counts(nbrs, num_neighbors)
         IN  IF IsSome(counts)
             THEN LET survival == as_neighbor_counts(Unwrap(counts).survival, r)
                      birth == as_neighbor_counts(Unwrap(counts).birth, survival.rand)
                  IN  [creature |-> Some([survival_neighbor_counts |-> survival.value,
                                          birth_neighbor_counts |-> birth.value]),
                       rand |-> birth.rand]
             ELSE [creature |-> None, rand |-> r]

\* EvoConwayGridCell::num_neighbor_creatures
num_neighbor_creatures(nbrs) == Count(nbrs, LAMBDA n : IsSome(n.creature))

\* EvoConwayGridCell::update
EvoConwayGridCell_update(c, nbrs, next_cell, rnd) ==
    LET num_neighbors == num_neighbor_creatures(nbrs)
    IN  IF IsSome(c.creature)
        THEN [next |-> IF EvoConway_survives(Unwrap(c.creature), num_neighbors)
                       THEN next_cell
                       ELSE [next_cell EXCEPT !.creature = None],
              rand |-> rnd]
        ELSE LET born == EvoConway_maybe_reproduce(nbrs, num_neighbors, Unwrap(rnd))
             IN  [next |-> [next_cell EXCEPT !.creature = born.creature],
                  rand |-> Some(born.rand)]

\* C::update for the grid's cell type.
GridCell_update(k, c, nbrs, next_cell, rnd) ==
    CASE k = "Conway" -> ConwayGridCell_update(c, nbrs, next_cell, rnd)
      [] k = "Lone" -> LoneGridCell_update(c, nbrs, next_cell, rnd)
      [] k = "EvoSubstance" -> EvoSubstanceCell_update(c, nbrs, next_cell, rnd)
      [] k = "Evo" -> EvoGridCell_update(c, nbrs, next_cell, rnd)
      [] k = "EvoConway" -> EvoConwayGridCell_update(c, nbrs, next_cell, rnd)

(***************************************************************************)
(* WorldGrid<C>: the generation-update engine.                             *)
(***************************************************************************)
\* WorldGrid::update_cell: the current cell and the Neighborhood are taken
\* from cs, the next cell is slot loc.col of the row's chunk.  `call` is the
\* record of what the transition was handed.
update_cell(loc, cs, next_cells_row, rnd) ==
    LET c == index(cs, size, loc)
        nlocs == for_neighbor_cells(loc, size)
        nbrs == [i \in 1..Len(nlocs) |-> index(cs, size, nlocs[i])]
        next_cell == next_cells_row[loc.col + 1]
        res == GridCell_update(kind, c, nbrs, next_cell, rnd)
    IN  [row |-> [next_cells_row EXCEPT ![loc.col + 1] = res.next],
         rand |-> res.rand,
         call |-> [cell |-> c,
                   neighborhood |-> [i \in 1..Len(nlocs) |->
                                        [loc |-> nlocs[i], cell |-> nbrs[i]]],
                   next_cell |-> next_cell,
                   rand |-> rnd]]

\* Variant of NextStmt: the hook runs before the snapshot.
NextStmt_hook_first(stmt) ==
    CASE stmt = "idle" -> "other_update"
      [] stmt = "other_update" -> "copy_from"
      [] stmt = "copy_from" -> "update_cells"
      [] stmt = "update_cells" -> "swap"
      [] stmt = "swap" -> "idle"

\* The statements of WorldGrid::update in program order.
NextStmt(stmt) ==
    CASE stmt = "idle" -> "copy_from"
      [] stmt = "copy_from" -> "other_update"
      [] stmt = "other_update" -> "update_cells"
      [] stmt = "update_cells" -> "swap"
      [] stmt = "swap" -> "idle"

\* Variant of other_update: the sources stamp the current buffer as well.
RECURSIVE StampAll_current(_, _, _)
StampAll_current(srcs, v, sz) ==
    IF srcs = <<>> THEN v
    ELSE StampAll_current(Tail(srcs), SubstanceSource_update_cells(srcs[1], v, sz), sz)

other_update_current(cs, ncs) ==
    [cells |-> StampAll_current(sources, cs, size),
     next_cells |-> StampAll_current(sources, ncs, size)]

\* The other_update closures of the repository: EvoWorld's lets every source
\* stamp grid.next_cells, in Vec order; the other worlds pass |_grid| {}.
RECURSIVE StampAll(_, _, _)
StampAll(srcs, v, sz) ==
    IF srcs = <<>> THEN v
    ELSE StampAll(Tail(srcs), SubstanceSource_update_cells(srcs[1], v, sz), sz)

other_update(cs, ncs) == [cells |-> cs, next_cells |-> StampAll(sources, ncs, size)]

\* Variant of swap: next is copied into current instead of exchanged.
swap_copy(ncs, cs) == [next_cells |-> ncs, cells |-> ncs]

\* mem::swap(&mut self.next_cells, &mut self.cells)
swap(ncs, cs) == [next_cells |-> cs, cells |-> ncs]

\* Variant of PassCells: the row tasks read the buffer they write.
PassCells_next == next_cells

\* The buffer update_cells hands to every row task as `cells`.
PassCells == cells

\* The count WorldGrid::update_cells passes to multi_fork_option.
ForkCount == size.width

\* Variant of RandSlot: every row task draws from one shared stream.
RandSlot_shared(r) == 1

\* zip pairs chunk r with fork r: the slot of row_rands that row r uses.
RandSlot(r) == r + 1

\* Variant of row_write: a row task writes its row into the current buffer.
row_write_current(cs, ncs, r, row) ==
    [cells |-> WithRow(cs, size, r, row), next_cells |-> ncs]

\* update_row writes through next_cells_row, its chunk of next_cells; the
\* buffer handed to it as `cells` is a shared reference.
row_write(cs, ncs, r, row) ==
    [cells |-> cs, next_cells |-> WithRow(ncs, size, r, row)]

\* The rows that get a task: the zip of the `height` chunks with row_rands
\* stops at the shorter of the two.
NumTasks(forks) == Min(Len(par_rows_mut(next_cells, size)), Len(forks))

(***************************************************************************)
(* Seeding: the inputs of a run.                                           *)
(***************************************************************************)
Kinds == {"Conway", "Lone", "EvoSubstance", "Evo"}

\* Where seeded cells may lie: two corners and the cell at (1, 1).
SeedLocs(sz) ==
    {Loc(0, 0), Loc(1, 1), Loc(sz.height - 1, sz.width - 1)} \cap Locs(sz)

SeedCells(k) ==
    CASE k \in {"Conway", "Lone"} -> {[alive |-> TRUE]}
      [] k = "EvoSubstance" ->
            {[creature |-> Some([enzyme_gene |-> 165, match_weight_gene |-> <<1, 2>>]),
              substance |-> sub] : sub \in {None, Some([code |-> 15])}}
      [] k = "Evo" -> {[creature |-> Some(EvoCreature_new(1)), substance |-> None]}

\* EvoSubstanceWorld and EvoWorld always hold Some(rand).
RandChoices(k) ==
    {Some(s) : s \in 0..MaxSeed} \cup (IF k \in {"Conway", "Lone"} THEN {None} ELSE {})

SourceChoices(k, sz) ==
    IF k = "Evo"
    THEN {<<>>} \cup {<<[loc |-> l, substance |-> Substance_new(1, Amount(1, 1))]>> :
                        l \in SeedLocs(sz)}
    ELSE {<<>>}

NoInvocations == [loc \in {} |-> <<>>]

NoOp == [op |-> "none", count |-> 0]

\* AppEventHandler::new: no App yet (its fields are placeholders until
\* resumed makes it), not paused, no cursor timeout.  `generation` counts the
\* calls of world.update; `loaded` is the generation last loaded into the
\* cross-fade buffer and `blend` the fraction last blended to the output, in
\* units of 1 / TIME_STEP_FRAMES.  event, before and frames are history: the
\* event handled last, the fields before it, and the on_frame calls since
\* the last call in which the world was updated.
NoApp ==
    [created |-> FALSE, paused |-> FALSE, time_step_frame |-> 0, generation |-> 0,
     loaded |-> 0, blend |-> 0, cursor_visible |-> TRUE, cursor_timeout |-> FALSE,
     redraw_requested |-> FALSE, exiting |-> FALSE, panicked |-> FALSE,
     event |-> [type |-> "none"], frames |-> 0,
     before |-> [created |-> FALSE, paused |-> FALSE, time_step_frame |-> 0,
                 generation |-> 0, frames |-> 0]]

\* WorldGrid::new, then the seeding of some cells of `cells`.
Init ==
    \E w \in 1..MaxWidth, h \in 1..MaxHeight, k \in Kinds :
      \E live \in SUBSET SeedLocs(GridSize(w, h)), c \in SeedCells(k),
         r \in RandChoices(k), srcs \in SourceChoices(k, GridSize(w, h)) :
        /\ ~is_empty(GridSize(w, h))
        /\ size = GridSize(w, h)
        /\ kind = k
        /\ sources = srcs
        /\ cells = [i \in 1..(w * h) |->
                      IF \E l \in live : grid_index(l, GridSize(w, h)) = Some(i - 1)
                      THEN c
                      ELSE WorldGridCells_new(GridSize(w, h), k)[i]]
        /\ next_cells = WorldGridCells_new(GridSize(w, h), k)
        /\ rand = r
        /\ pc = "idle"
        /\ row_rands = <<>>
        /\ row_col = <<>>
        /\ updates = 0
        /\ invocations = NoInvocations
        /\ steps = <<>>
        /\ callCells = cells
        /\ callRand = r
        /\ passCells = cells
        /\ seedCells = cells
        /\ seedRand = r
        /\ app = NoApp
        /\ lastOp = NoOp

(***************************************************************************)
(* Actions: one per step of WorldGrid::update.                             *)
(***************************************************************************)
\* A world calls grid.update(&mut rand, other_update).
Call ==
    /\ pc = "idle"
    /\ updates < MaxUpdates
    /\ pc' = NextStmt(pc)
    /\ invocations' = NoInvocations
    /\ steps' = <<>>
    /\ callCells' = cells
    /\ callRand' = rand
    /\ lastOp' = NoOp
    /\ UNCHANGED <<app, size, kind, sources, cells, next_cells, rand, row_rands, row_col,
                   updates, passCells, seedCells, seedRand>>

\* self.next_cells.copy_from(&self.cells)
CopyFrom ==
    /\ pc = "copy_from"
    /\ next_cells' = copy_from(next_cells, cells)
    /\ steps' = Append(steps, "copy_from")
    /\ pc' = NextStmt(pc)
    /\ UNCHANGED <<app, size, kind, sources, cells, rand, row_rands, row_col, updates,
                   invocations, callCells, callRand, passCells, seedCells, seedRand,
                   lastOp>>

\* other_update(self)
OtherUpdate ==
    /\ pc = "other_update"
    /\ LET after == other_update(cells, next_cells)
       IN  /\ cells' = after.cells
           /\ next_cells' = after.next_cells
    /\ steps' = Append(steps, "other_update")
    /\ pc' = NextStmt(pc)
    /\ UNCHANGED <<app, size, kind, sources, rand, row_rands, row_col, updates,
                   invocations, callCells, callRand, passCells, seedCells, seedRand,
                   lastOp>>

\* update_cells, before the parallel iteration starts: multi_fork_option is
\* an argument of zip, so every fork is taken here; the pairs of the zip are
\* the row tasks.
MultiFork ==
    /\ pc = "update_cells"
    /\ LET forked == multi_fork_option(rand, ForkCount)
       IN  /\ row_rands' = forked.forks
           /\ rand' = forked.rand
           /\ row_col' = [i \in 1..NumTasks(forked.forks) |-> 0]
    /\ steps' = Append(steps, "multi_fork")
    /\ passCells' = cells
    /\ pc' = "rows"
    /\ UNCHANGED <<app, size, kind, sources, cells, next_cells, updates, invocations,
                   callCells, callRand, seedCells, seedRand,
                   lastOp>>

\* One iteration of update_row's loop in the task of row r: update_cell at
\* (r, row_col).  The tasks interleave cell by cell; for_each returns when
\* the last task has finished its row.
UpdateCell(r) ==
    /\ pc = "rows"
    /\ r + 1 \in DOMAIN row_col
    /\ row_col[r + 1] < size.width
    /\ LET loc == Loc(r, row_col[r + 1])
           res == update_cell(loc, PassCells, par_rows_mut(next_cells, size)[r + 1],
                              row_rands[RandSlot(r)])
           after == row_write(cells, next_cells, r, res.row)
       IN  /\ cells' = after.cells
           /\ next_cells' = after.next_cells
           /\ row_rands' = [row_rands EXCEPT ![RandSlot(r)] = res.rand]
           /\ invocations' =
                 IF loc \in DOMAIN invocations
                 THEN [invocations EXCEPT ![loc] = Append(@, res.call)]
                 ELSE invocations @@ (loc :> <<res.call>>)
    /\ row_col' = [row_col EXCEPT ![r + 1] = @ + 1]
    /\ steps' = Append(steps, "update_cell")
    /\ pc' = IF \A i \in DOMAIN row_col : row_col'[i] = size.width
             THEN NextStmt("update_cells")
             ELSE "rows"
    /\ UNCHANGED <<app, size, kind, sources, rand, updates, callCells, callRand,
                   passCells, seedCells, seedRand,
                   lastOp>>

\* mem::swap(&mut self.next_cells, &mut self.cells); update returns.
Swap ==
    /\ pc = "swap"
    /\ LET after == swap(next_cells, cells)
       IN  /\ cells' = after.cells
           /\ next_cells' = after.next_cells
    /\ steps' = Append(steps, "swap")
    /\ updates' = updates + 1
    /\ pc' = NextStmt(pc)
    /\ UNCHANGED <<app, size, kind, sources, rand, row_rands, row_col, invocations,
                   callCells, callRand, passCells, seedCells, seedRand,
                   lastOp>>

Next ==
    \/ Call
    \/ CopyFrom
    \/ OtherUpdate
    \/ MultiFork
    \/ \E r \in 0..(MaxHeight - 1) : UpdateCell(r)
    \/ Swap

Spec == Init /\ [][Next]_vars

(***************************************************************************)
(* The operations a world makes on its grid outside update: construction   *)
(* from any GridSize, cell_mut, Index and IndexMut on the current buffer   *)
(* and copy_from between buffers.  A panic ends the run: pc = "panic".     *)
(***************************************************************************)
\* The Locs the operations are tried with: the seeding Locs and Locs one
\* past the last row, the last column, or both.
ProbeLocs(sz) ==
    SeedLocs(sz) \cup {Loc(sz.height, 0), Loc(0, sz.width), Loc(sz.height, sz.width)}

\* WorldGrid::new(size) for any size, a zero width or height included.
InitOps ==
    \E w \in 0..MaxWidth, h \in 0..MaxHeight, k \in Kinds :
      \E r \in RandChoices(k) :
        LET made == WorldGrid_new(GridSize(w, h), k)
        IN  /\ size = GridSize(w, h)
            /\ kind = k
            /\ sources = <<>>
            /\ cells = IF made.panic THEN <<>> ELSE made.cells
            /\ next_cells = IF made.panic THEN <<>> ELSE made.next_cells
            /\ rand = r
            /\ pc = IF made.panic THEN "panic" ELSE "idle"
            /\ row_rands = <<>>
            /\ row_col = <<>>
            /\ updates = 0
            /\ invocations = NoInvocations
            /\ steps = <<>>
            /\ callCells = cells
            /\ callRand = r
            /\ passCells = cells
            /\ seedCells = cells
            /\ seedRand = r
            /\ app = NoApp
            /\ lastOp = [op |-> "new", count |-> 0, size |-> GridSize(w, h),
                         panic |-> made.panic]

\* if let Some(cell) = self.grid.cell_mut(loc) { *cell = c }
CellMutOp ==
    /\ pc = "idle"
    /\ lastOp.count < MaxOps
    /\ \E loc \in ProbeLocs(size), c \in SeedCells(kind) :
          LET slot == cell_mut(cells, size, loc)
          IN  /\ cells' = IF IsSome(slot)
                          THEN [cells EXCEPT ![Unwrap(slot) + 1] = c]
                          ELSE cells
              /\ lastOp' = [op |-> "cell_mut", count |-> lastOp.count + 1,
                            loc |-> loc, value |-> c, result |-> slot,
                            cells |-> cells]
    /\ UNCHANGED <<app, size, kind, sources, next_cells, rand, pc, row_rands, row_col,
                   updates, invocations, steps, callCells, callRand, passCells,
                   seedCells, seedRand>>

\* self.grid.cells[loc] = c
IndexMutOp ==
    /\ pc = "idle"
    /\ lastOp.count < MaxOps
    /\ \E loc \in ProbeLocs(size), c \in SeedCells(kind) :
          LET panics == index_panics(cells, size, loc)
          IN  /\ cells' = IF panics THEN cells ELSE index_mut_set(cells, size, loc, c)
              /\ pc' = IF panics THEN "panic" ELSE pc
              /\ lastOp' = [op |-> "index_mut", count |-> lastOp.count + 1,
                            loc |-> loc, value |-> c, panic |-> panics,
                            cells |-> cells, next_cells |-> next_cells]
    /\ UNCHANGED <<app, size, kind, sources, next_cells, rand, row_rands, row_col,
                   updates, invocations, steps, callCells, callRand, passCells,
                   seedCells, seedRand>>

\* let cell = self.grid.cells[loc]
IndexOp ==
    /\ pc = "idle"
    /\ lastOp.count < MaxOps
    /\ \E loc \in ProbeLocs(size) :
          LET panics == index_panics(cells, size, loc)
          IN  /\ pc' = IF panics THEN "panic" ELSE pc
              /\ lastOp' = [op |-> "index", count |-> lastOp.count + 1, loc |-> loc,
                            value |-> IF panics THEN None
                                      ELSE Some(index(cells, size, loc)),
                            panic |-> panics, cells |-> cells,
                            next_cells |-> next_cells]
    /\ UNCHANGED <<app, size, kind, sources, cells, next_cells, rand, row_rands, row_col,
                   updates, invocations, steps, callCells, callRand, passCells,
                   seedCells, seedRand>>

\* target.copy_from(&source) on a buffer of the grid, the source being the
\* grid's other buffer or a buffer of another size.
CopyFromOp ==
    /\ pc = "idle"
    /\ lastOp.count < MaxOps
    /\ \E target \in {"cells", "next_cells"}, foreign \in BOOLEAN :
          LET to == IF target = "cells" THEN cells ELSE next_cells
              from == IF foreign THEN Append(to, DefaultCell(kind))
                      ELSE IF target = "cells" THEN next_cells ELSE cells
              panics == copy_from_panics(to, from)
              copied == IF panics THEN to ELSE copy_from(to, from)
          IN  /\ cells' = IF target = "cells" THEN copied ELSE cells
              /\ next_cells' = IF target = "next_cells" THEN copied ELSE next_cells
              /\ pc' = IF panics THEN "panic" ELSE pc
              /\ lastOp' = [op |-> "copy_from", count |-> lastOp.count + 1,
                            target |-> target, panic |-> panics,
                            cells |-> cells, next_cells |-> next_cells]
    /\ UNCHANGED <<app, size, kind, sources, rand, row_rands, row_col, updates,
                   invocations, steps, callCells, callRand, passCells, seedCells,
                   seedRand>>

NextOps ==
    \/ CellMutOp
    \/ IndexMutOp
    \/ IndexOp
    \/ CopyFromOp

\* Construction followed by accesses.
SpecOps == InitOps /\ [][NextOps]_vars

\* A grid of a world whose transitions draw nothing, in use: updates with
\* cell_mut and copy_from calls between them.
InitLife == InitOps /\ kind \in {"Conway", "Evo"} /\ pc = "idle"

NextLife ==
    \/ Next
    \/ CellMutOp
    \/ CopyFromOp

SpecLife == InitLife /\ [][NextLife]_vars

\* EvoSubstanceWorld: a seeded grid of EvoSubstanceCells and its updates.
InitEvoSubstance == Init /\ kind = "EvoSubstance"

SpecEvoSubstance == InitEvoSubstance /\ [][Next]_vars

(***************************************************************************)
(* Genes (world-grid/src/lib.rs).  A BitSet8 is a number in 0..255, a      *)
(* BitSet8Gene its value.  An f32 or f64 is a fraction <<numerator,        *)
(* denominator>> with a denominator >= 0; 0.0 / 0.0, the NaN, is <<0, 0>>, *)
(* which compares false with everything.  A call that can panic returns a  *)
(* record with a panic field.                                              *)
(***************************************************************************)
\* BitCountsMap::new
BitCountsMap_new == [ones |-> [i \in 0..7 |-> 0], zeros |-> [i \in 0..7 |-> 0]]

\* BitCountsMap::increment
increment(counts, bits) ==
    [ones |-> [i \in 0..7 |-> counts.ones[i] + (IF is_bit_set(bits, i) THEN 1 ELSE 0)],
     zeros |-> [i \in 0..7 |-> counts.zeros[i] + (IF is_bit_set(bits, i) THEN 0 ELSE 1)]]

\* Variant of merge_counts: without a stream a split vote is decided 0.
merge_counts_lenient(num_ones, num_zeros, rnd) ==
    IF num_ones = 0 THEN [panic |-> FALSE, value |-> FALSE, rand |-> rnd]
    ELSE IF num_zeros = 0 THEN [panic |-> FALSE, value |-> TRUE, rand |-> rnd]
    ELSE IF rnd = None THEN [panic |-> FALSE, value |-> FALSE, rand |-> rnd]
    ELSE LET draw == next_bool(Unwrap(rnd), <<num_ones, num_ones + num_zeros>>)
         IN  [panic |-> FALSE, value |-> draw.value, rand |-> Some(draw.rand)]

\* Variant of merge_counts: a majority threshold decides a split vote.
merge_counts_majority(num_ones, num_zeros, rnd) ==
    IF num_ones = 0 THEN [panic |-> FALSE, value |-> FALSE, rand |-> rnd]
    ELSE IF num_zeros = 0 THEN [panic |-> FALSE, value |-> TRUE, rand |-> rnd]
    ELSE IF rnd = None THEN [panic |-> TRUE]
    ELSE [panic |-> FALSE, value |-> num_ones > num_zeros, rand |-> rnd]

\* BitCountsMap::merge_counts; rand.as_mut().unwrap() panics on None.
merge_counts(num_ones, num_zeros, rnd) ==
    IF num_ones = 0 THEN [panic |-> FALSE, value |-> FALSE, rand |-> rnd]
    ELSE IF num_zeros = 0 THEN [panic |-> FALSE, value |-> TRUE, rand |-> rnd]
    ELSE IF rnd = None THEN [panic |-> TRUE]
    ELSE LET draw == next_bool(Unwrap(rnd), <<num_ones, num_ones + num_zeros>>)
         IN  [panic |-> FALSE, value |-> draw.value, rand |-> Some(draw.rand)]

\* BitCountsMap::as_bit_set, from bit i on: the vote of merge_counts, then,
\* when there is a stream, the mutation draw.
RECURSIVE as_bit_set_from(_, _, _, _, _)
as_bit_set_from(i, counts, result, rnd, mutation_odds) ==
    IF i = 8
    THEN [panic |-> FALSE, value |-> result, rand |-> rnd]
    ELSE LET vote == merge_counts(counts.ones[i], counts.zeros[i], rnd)
         IN  IF vote.panic
             THEN [panic |-> TRUE]
             ELSE LET voted == IF vote.value THEN set_bit(result, i) ELSE result
                  IN  IF IsSome(vote.rand)
                      THEN LET draw == next_bool(Unwrap(vote.rand), mutation_odds)
                           IN  as_bit_set_from(i + 1, counts,
                                   IF draw.value THEN flip_bit(voted, i) ELSE voted,
                                   Some(draw.rand), mutation_odds)
                      ELSE as_bit_set_from(i + 1, counts, voted, vote.rand,
                                           mutation_odds)

as_bit_set(counts, rnd, mutation_odds) ==
    as_bit_set_from(0, counts, 0, rnd, mutation_odds)

\* Variant of bit_counts_of: the first parent is not counted.
RECURSIVE bit_counts_of_rest(_)
bit_counts_of_rest(genes) ==
    IF Len(genes) <= 1
    THEN BitCountsMap_new
    ELSE increment(bit_counts_of_rest(SubSeq(genes, 1, Len(genes) - 1)),
                   genes[Len(genes)])

\* The BitCountsMap after `for gene in genes { bit_counts.increment(..) }`.
RECURSIVE bit_counts_of(_)
bit_counts_of(genes) ==
    IF genes = <<>>
    THEN BitCountsMap_new
    ELSE increment(bit_counts_of(SubSeq(genes, 1, Len(genes) - 1)), genes[Len(genes)])

\* BitSet8Gene::merge
BitSet8Gene_merge(genes, rnd, mutation_odds) ==
    as_bit_set(bit_counts_of(genes), rnd, mutation_odds)

\* f32 / f64 arithmetic on fractions.
FracAdd(a, b) == <<a[1] * b[2] + b[1] * a[2], a[2] * b[2]>>

\* Variant of FracDiv: the sum is left undivided.
FracDiv_undivided(a, n) == a

FracDiv(a, n) == <<a[1], a[2] * n>>

FracLeq(a, b) == a[2] > 0 /\ b[2] > 0 /\ a[1] * b[2] <= b[1] * a[2]

\* RangeInclusive::contains
contains(range, x) == FracLeq(range[1], x) /\ FracLeq(x, range[2])

\* 0.0..=1.0
UnitRange == << <<0, 1>>, <<1, 1>> >>

\* genes.iter().map(|gene| gene.value).sum::<f32>()
RECURSIVE FracSum(_)
FracSum(values) ==
    IF values = <<>> THEN <<0, 1>> ELSE FracAdd(values[1], FracSum(Tail(values)))

\* The standard normal deviate a draw yields, one of -2 .. 2.
StandardNormal(r) == (r % 5) - 2

\* Random::next_normal: mean + stdev * deviate, one draw.
next_normal(r, mean, stdev) ==
    [value |-> FracAdd(mean, <<stdev[1] * StandardNormal(r), stdev[2]>>),
     rand |-> RngAdvance(r)]

\* Variant of next_truncated_normal_loop: a sample outside the range is
\* clamped to the range and returned.
next_truncated_normal_loop_clamped(r, mean, stdev, range, left) ==
    LET sample == next_normal(r, mean, stdev)
    IN  [returns |-> TRUE,
         value |-> IF mean[2] = 0 \/ contains(range, sample.value) THEN sample.value
                   ELSE IF FracLeq(sample.value, range[1]) THEN range[1]
                   ELSE range[2],
         rand |-> sample.rand]

\* Random::next_truncated_normal: loop { sample; return it if in range }.
\* A stream has RngMod states, so a loop that has not returned after RngMod
\* samples never returns.
RECURSIVE next_truncated_normal_loop(_, _, _, _, _)
next_truncated_normal_loop(r, mean, stdev, range, left) ==
    IF left = 0
    THEN [returns |-> FALSE]
    ELSE LET sample == next_normal(r, mean, stdev)
         IN  IF contains(range, sample.value)
             THEN [returns |-> TRUE, value |-> sample.value, rand |-> sample.rand]
             ELSE next_truncated_normal_loop(sample.rand, mean, stdev, range, left - 1)

\* Variant of next_truncated_normal: the first sample is returned as it is.
next_truncated_normal_first(r, mean, stdev, range) ==
    LET sample == next_normal(r, mean, stdev)
    IN  [returns |-> TRUE, value |-> sample.value, rand |-> sample.rand]

next_truncated_normal(r, mean, stdev, range) ==
    next_truncated_normal_loop(r, mean, stdev, range, RngMod)

\* FractionGene::new: debug_assert!((0.0..=1.0).contains(&value)), which is
\* compiled in only when the build has debug assertions.
FractionGene_new(value, debug_assertions) ==
    IF debug_assertions /\ ~contains(<< <<0, 1>>, <<1, 1>> >>, value)
    THEN [panic |-> TRUE]
    ELSE [panic |-> FALSE, value |-> value]

\* FractionGene::merge.  outcome is "value", "panic", or "diverges" when the
\* call never returns.
FractionGene_merge(genes, rnd, mutation_stdev, debug_assertions) ==
    LET average_value == FracDiv(FracSum(genes), Len(genes))
    IN  IF IsSome(rnd)
        THEN LET sample == next_truncated_normal(Unwrap(rnd), average_value,
                                                 mutation_stdev, << <<0, 1>>, <<1, 1>> >>)
             IN  IF ~sample.returns
                 THEN [outcome |-> "diverges"]
                 ELSE LET gene == FractionGene_new(sample.value, debug_assertions)
                      IN  IF gene.panic
                          THEN [outcome |-> "panic"]
                          ELSE [outcome |-> "value", value |-> gene.value,
                                rand |-> Some(sample.rand)]
        ELSE LET gene == FractionGene_new(average_value, debug_assertions)
             IN  IF gene.panic
                 THEN [outcome |-> "panic"]
                 ELSE [outcome |-> "value", value |-> gene.value, rand |-> rnd]

(***************************************************************************)
(* Calls of the gene merges and of Random::fork on their own, beside a     *)
(* grid that stays as constructed.                                         *)
(***************************************************************************)
\* The genomes, fraction values, odds and deviations the calls are made with.
GeneValues == {0, 164, 165, 255}

FractionValues == {<<0, 1>>, <<1, 2>>, <<1, 1>>}

MutationOdds == {<<0, 1>>, <<1, 1000>>, <<1, 2>>, <<1, 1>>}

MutationStdevs == {<<0, 1>>, <<1, 1000>>, <<1, 2>>}

Streams == {None} \cup {Some(r) : r \in 0..(RngMod - 1)}

\* The lists of at most n elements of S (an ArrayVec).
ListsUpTo(S, n) == UNION {[1..k -> S] : k \in 0..n}

\* The parent lists BitSet8Gene::merge is called with: the lists over
\* GeneValues, and every genome carried by 1..MaxParents parents alike.
ParentGenomes ==
    ListsUpTo(GeneValues, MaxParents)
        \cup {[k \in 1..n |-> g] : g \in 0..255, n \in 1..MaxParents}

InitGenes == InitOps /\ size = GridSize(1, 1) /\ kind = "Conway" /\ rand = None

\* BitSet8Gene::merge(&genes, &mut rand, mutation_odds)
MergeBitSet8Op ==
    /\ lastOp.op = "new"
    /\ \E genes \in ParentGenomes, rnd \in Streams,
          mutation_odds \in MutationOdds :
          LET merged == BitSet8Gene_merge(genes, rnd, mutation_odds)
          IN  lastOp' = [op |-> "BitSet8Gene::merge", count |-> 1, genes |-> genes,
                         rand |-> rnd, mutation_odds |-> mutation_odds,
                         outcome |-> IF merged.panic THEN "panic" ELSE "value",
                         result |-> merged]
    /\ UNCHANGED <<app, size, kind, sources, cells, next_cells, rand, pc, row_rands,
                   row_col, updates, invocations, steps, callCells, callRand,
                   passCells, seedCells, seedRand>>

\* FractionGene::merge(&genes, &mut rand, mutation_stdev), in a build with or
\* without debug assertions.
MergeFractionOp ==
    /\ lastOp.op = "new"
    /\ \E genes \in ListsUpTo(FractionValues, MaxParents), rnd \in Streams,
          mutation_stdev \in MutationStdevs, debug_assertions \in BOOLEAN :
          LET merged == FractionGene_merge(genes, rnd, mutation_stdev, debug_assertions)
          IN  lastOp' = [op |-> "FractionGene::merge", count |-> 1, genes |-> genes,
                         rand |-> rnd, mutation_stdev |-> mutation_stdev,
                         debug_assertions |-> debug_assertions,
                         outcome |-> merged.outcome, result |-> merged]
    /\ UNCHANGED <<app, size, kind, sources, cells, next_cells, rand, pc, row_rands,
                   row_col, updates, invocations, steps, callCells, callRand,
                   passCells, seedCells, seedRand>>

\* Two streams a and b in one state.
StreamsOp ==
    /\ lastOp.op = "new"
    /\ \E r \in 0..(RngMod - 1) :
          lastOp' = [op |-> "fork", count |-> 1, a |-> r, b |-> r,
                     a_forks |-> <<>>, b_forks |-> <<>>]
    /\ UNCHANGED <<app, size, kind, sources, cells, next_cells, rand, pc, row_rands,
                   row_col, updates, invocations, steps, callCells, callRand,
                   passCells, seedCells, seedRand>>

\* a.fork()
ForkAOp ==
    /\ lastOp.op = "fork"
    /\ Len(lastOp.a_forks) < MaxForks
    /\ LET f == fork(lastOp.a)
       IN  lastOp' = [lastOp EXCEPT !.a = f.parent,
                                    !.a_forks = Append(@, f.child)]
    /\ UNCHANGED <<app, size, kind, sources, cells, next_cells, rand, pc, row_rands,
                   row_col, updates, invocations, steps, callCells, callRand,
                   passCells, seedCells, seedRand>>

\* b.fork()
ForkBOp ==
    /\ lastOp.op = "fork"
    /\ Len(lastOp.b_forks) < MaxForks
    /\ LET f == fork(lastOp.b)
       IN  lastOp' = [lastOp EXCEPT !.b = f.parent,
                                    !.b_forks = Append(@, f.child)]
    /\ UNCHANGED <<app, size, kind, sources, cells, next_cells, rand, pc, row_rands,
                   row_col, updates, invocations, steps, callCells, callRand,
                   passCells, seedCells, seedRand>>

\* The probabilities next_bool is called with.
Odds == {<<0, 1>>, <<1, 3>>, <<1, 2>>, <<1, 1>>}

\* rand.next_bool(p), called again and again on one stream.
NextBoolOp ==
    /\ \/ /\ lastOp.op = "new"
          /\ \E r \in 0..(RngMod - 1), p \in Odds :
                LET draw == next_bool(r, p)
                IN  lastOp' = [op |-> "next_bool", count |-> 1, p |-> p, start |-> r,
                               rand |-> draw.rand, values |-> <<draw.value>>]
       \/ /\ lastOp.op = "next_bool"
          /\ Len(lastOp.values) < MaxDraws
          /\ LET draw == next_bool(lastOp.rand, lastOp.p)
             IN  lastOp' = [lastOp EXCEPT !.rand = draw.rand,
                                          !.values = Append(@, draw.value)]
    /\ UNCHANGED <<app, size, kind, sources, cells, next_cells, rand, pc, row_rands,
                   row_col, updates, invocations, steps, callCells, callRand,
                   passCells, seedCells, seedRand>>

\* Random::multi_fork_option(&mut rand, count)
MultiForkOp ==
    /\ lastOp.op = "new"
    /\ \E rnd \in Streams, fork_count \in 0..(MaxForks + 1) :
          LET forked == multi_fork_option(rnd, fork_count)
          IN  lastOp' = [op |-> "multi_fork_option", count |-> 1, rand |-> rnd,
                         fork_count |-> fork_count, forks |-> forked.forks,
                         rand_after |-> forked.rand]
    /\ UNCHANGED <<app, size, kind, sources, cells, next_cells, rand, pc, row_rands,
                   row_col, updates, invocations, steps, callCells, callRand,
                   passCells, seedCells, seedRand>>

\* The means and ranges next_truncated_normal is called with: means inside
\* the range, a mean too far from it for any sample to reach it, and the
\* mean 0.0 / 0.0 FractionGene::merge computes for no parents.
Means == FractionValues \cup {<<3, 1>>, <<0, 0>>}

Ranges == {UnitRange, << <<0, 1>>, <<1, 2>> >>}

\* rand.next_truncated_normal(mean, stdev, range)
TruncatedNormalOp ==
    /\ lastOp.op = "new"
    /\ \E r \in 0..(RngMod - 1), mean \in Means, stdev \in MutationStdevs,
          range \in Ranges :
          LET sampled == next_truncated_normal(r, mean, stdev, range)
          IN  lastOp' = [op |-> "next_truncated_normal", count |-> 1, rand |-> r,
                         mean |-> mean, stdev |-> stdev, range |-> range,
                         result |-> sampled]
    /\ UNCHANGED <<app, size, kind, sources, cells, next_cells, rand, pc, row_rands,
                   row_col, updates, invocations, steps, callCells, callRand,
                   passCells, seedCells, seedRand>>

NextGenes ==
    \/ MergeBitSet8Op
    \/ TruncatedNormalOp
    \/ MultiForkOp
    \/ NextBoolOp
    \/ MergeFractionOp
    \/ StreamsOp
    \/ ForkAOp
    \/ ForkBOp

SpecGenes == InitGenes /\ [][NextGenes]_vars

(***************************************************************************)
(* ConwayWorld (conway-life-pixels/src/main.rs): a world that keeps its    *)
(* two buffers itself and updates them with a sequential pass over every   *)
(* Loc of the grid.                                                        *)
(***************************************************************************)
\* Variant of ConwayWorld_update_cell: the Neighborhood is made on the
\* buffer being written.
ConwayWorld_update_cell_in_place(cs, ncs, sz, loc) ==
    LET c == index(cs, sz, loc)
        nlocs == for_neighbor_cells(loc, sz)
        nbrs == [i \in 1..Len(nlocs) |-> index(ncs, sz, nlocs[i])]
        next_cell == index(ncs, sz, loc)
    IN  index_mut_set(ncs, sz, loc, ConwayGridCell_update(c, nbrs, next_cell, None).next)

\* ConwayWorld::update_cell: the cell and its Neighborhood come from
\* self.cells, the next cell is self.next_cells[loc].
ConwayWorld_update_cell(cs, ncs, sz, loc) ==
    LET c == index(cs, sz, loc)
        nlocs == for_neighbor_cells(loc, sz)
        nbrs == [i \in 1..Len(nlocs) |-> index(cs, sz, nlocs[i])]
        next_cell == index(ncs, sz, loc)
    IN  index_mut_set(ncs, sz, loc, ConwayGridCell_update(c, nbrs, next_cell, None).next)

\* ConwayWorld::update_cells: for row in 0..height, for col in 0..width;
\* k counts the Locs already visited.
RECURSIVE ConwayWorld_update_cells(_, _, _, _)
ConwayWorld_update_cells(cs, ncs, sz, k) ==
    IF k = area(sz)
    THEN ncs
    ELSE ConwayWorld_update_cells(
             cs,
             ConwayWorld_update_cell(cs, ncs, sz, Loc(k \div sz.width, k % sz.width)),
             sz, k + 1)

\* ConwayWorld::new: two buffers of default cells, then add_random_life sets
\* each cell's alive to a draw: any set of at most MaxSeeded live cells.
InitConway ==
    \E w \in 1..MaxWidth, h \in 1..MaxHeight :
      \E live \in SUBSET Locs(GridSize(w, h)), r \in 0..MaxSeed :
        /\ Cardinality(live) <= MaxSeeded
        /\ size = GridSize(w, h)
        /\ kind = "Conway"
        /\ sources = <<>>
        /\ cells = [i \in 1..(w * h) |->
                      [alive |-> \E l \in live : grid_index(l, GridSize(w, h)) = Some(i - 1)]]
        /\ next_cells = WorldGridCells_new(GridSize(w, h), "Conway")
        /\ rand = Some(r)
        /\ pc = "idle"
        /\ row_rands = <<>>
        /\ row_col = <<>>
        /\ updates = 0
        /\ invocations = NoInvocations
        /\ steps = <<>>
        /\ callCells = cells
        /\ callRand = rand
        /\ passCells = cells
        /\ seedCells = cells
        /\ seedRand = rand
        /\ app = NoApp
        /\ lastOp = NoOp

\* ConwayWorld::update: next_cells.copy_from(&cells); update_cells();
\* mem::swap(&mut next_cells, &mut cells).
ConwayWorldUpdate ==
    /\ pc = "idle"
    /\ updates < MaxUpdates
    /\ LET copied == copy_from(next_cells, cells)
           updated == ConwayWorld_update_cells(cells, copied, size, 0)
       IN  /\ cells' = updated
           /\ next_cells' = cells
    /\ callCells' = cells
    /\ passCells' = cells
    /\ updates' = updates + 1
    /\ lastOp' = [op |-> "ConwayWorld::update", count |-> updates + 1]
    /\ UNCHANGED <<app, size, kind, sources, rand, pc, row_rands, row_col, invocations,
                   steps, callRand, seedCells, seedRand>>

NextConway == ConwayWorldUpdate

SpecConway == InitConway /\ [][NextConway]_vars

(***************************************************************************)
(* EvoConwayWorld (evo-conway-life-pixels/src/main.rs): a WorldGrid of     *)
(* EvoConwayGridCells and a Random; its update is grid.update with the     *)
(* empty hook.                                                             *)
(***************************************************************************)
\* EvoConwayWorld::new: add_random_life puts Creature::conway() into the
\* cells a draw picks: any set of at most MaxSeeded cells.
InitEvoConway ==
    \E w \in 1..MaxWidth, h \in 1..MaxHeight :
      \E occupied \in SUBSET Locs(GridSize(w, h)), r \in 0..MaxSeed :
        /\ Cardinality(occupied) <= MaxSeeded
        /\ size = GridSize(w, h)
        /\ kind = "EvoConway"
        /\ sources = <<>>
        /\ cells = [i \in 1..(w * h) |->
                      IF \E l \in occupied : grid_index(l, GridSize(w, h)) = Some(i - 1)
                      THEN [creature |-> Some(Creature_conway)]
                      ELSE DefaultCell("EvoConway")]
        /\ next_cells = WorldGridCells_new(GridSize(w, h), "EvoConway")
        /\ rand = Some(r)
        /\ pc = "idle"
        /\ row_rands = <<>>
        /\ row_col = <<>>
        /\ updates = 0
        /\ invocations = NoInvocations
        /\ steps = <<>>
        /\ callCells = cells
        /\ callRand = rand
        /\ passCells = cells
        /\ seedCells = cells
        /\ seedRand = rand
        /\ app = NoApp
        /\ lastOp = NoOp

SpecEvoConway == InitEvoConway /\ [][Next]_vars

(***************************************************************************)
(* The animation loop (pixels-main-support/src/lib.rs): AppEventHandler    *)
(* and its App.  The world is seen through the number of world.update      *)
(* calls, the pixel buffers through what was loaded and blended last.      *)
(***************************************************************************)
\* const TIME_STEP_FRAMES: u32 = 60
TIME_STEP_FRAMES == 60

\* The events winit hands to window_event; a click lies inside the pixel
\* surface or outside it.
WindowEvents ==
    {[type |-> "CloseRequested"], [type |-> "CursorMoved"], [type |-> "RedrawRequested"],
     [type |-> "Resized"]}
    \cup {[type |-> "Focused", focused |-> f] : f \in BOOLEAN}
    \cup {[type |-> "KeyboardInput", code |-> c, state |-> "Released", repeat |-> FALSE] :
            c \in {"Escape", "KeyQ", "KeyX", "KeyP", "KeyS", "KeyA"}}
    \cup {[type |-> "KeyboardInput", code |-> c, state |-> "Pressed", repeat |-> FALSE] :
            c \in {"KeyP", "KeyS"}}
    \cup {[type |-> "KeyboardInput", code |-> "KeyS", state |-> "Released", repeat |-> TRUE]}
    \cup {[type |-> "MouseInput", button |-> "Left", state |-> "Released", inside |-> i] :
            i \in BOOLEAN}
    \cup {[type |-> "MouseInput", button |-> "Left", state |-> "Pressed", inside |-> TRUE],
          [type |-> "MouseInput", button |-> "Right", state |-> "Released", inside |-> TRUE]}

\* AppEventHandler::show_cursor
show_cursor(a) == [a EXCEPT !.cursor_visible = TRUE, !.cursor_timeout = TRUE]

\* AppEventHandler::hide_cursor
hide_cursor(a) == [a EXCEPT !.cursor_visible = FALSE, !.cursor_timeout = FALSE]

\* App::new and App::on_create: time_step_frame: 0, then the first
\* world.update, load, blend_to_output(1.0), request_redraw.
on_create(a) ==
    [a EXCEPT !.created = TRUE, !.time_step_frame = 0,
              !.generation = @ + 1, !.loaded = a.generation + 1,
              !.blend = TIME_STEP_FRAMES, !.cursor_visible = FALSE,
              !.redraw_requested = TRUE]

\* App::on_cross_fade_frame
on_cross_fade_frame(a) ==
    [a EXCEPT !.blend = a.time_step_frame, !.time_step_frame = @ + 1,
              !.redraw_requested = TRUE]

\* App::on_time_step_frame
on_time_step_frame(a) ==
    [a EXCEPT !.generation = @ + 1, !.loaded = a.generation + 1,
              !.time_step_frame = 0, !.redraw_requested = TRUE]

\* Variant of on_frame: the time step comes one frame early.
on_frame_early(a) ==
    IF a.time_step_frame + 1 < TIME_STEP_FRAMES
    THEN on_cross_fade_frame(a)
    ELSE on_time_step_frame(a)

\* App::on_frame
on_frame(a) ==
    IF a.time_step_frame < TIME_STEP_FRAMES
    THEN on_cross_fade_frame(a)
    ELSE on_time_step_frame(a)

\* App::on_single_step
on_single_step(a) ==
    [a EXCEPT !.generation = @ + 1, !.loaded = a.generation + 1,
              !.blend = TIME_STEP_FRAMES, !.redraw_requested = TRUE]

\* App::on_mouse_click: window_pos_to_pixel(..).unwrap() panics for a
\* position outside the pixel surface; debug_print changes nothing.
on_mouse_click(a, inside) == [a EXCEPT !.panicked = ~inside]

\* App::draw
draw(a) == [a EXCEPT !.redraw_requested = FALSE]

\* Variant of new_events: a frame is made whether paused or not.
new_events_unpaused(a, expired) ==
    LET framed == IF a.created THEN on_frame(a) ELSE a
    IN  IF framed.cursor_timeout /\ expired THEN hide_cursor(framed) ELSE framed

\* AppEventHandler::new_events; `expired` says whether Instant::now() has
\* reached the cursor timeout.
new_events(a, expired) ==
    LET framed == IF a.created /\ ~a.paused THEN on_frame(a) ELSE a
    IN  IF framed.cursor_timeout /\ expired THEN hide_cursor(framed) ELSE framed

\* AppEventHandler::resumed
resumed(a) == IF ~a.created THEN on_create(a) ELSE a

\* The match on the code of a released, non-repeated key.
window_event_key(a, code) ==
    CASE code \in {"Escape", "KeyQ", "KeyX"} -> [a EXCEPT !.exiting = TRUE]
      [] code = "KeyP" -> [a EXCEPT !.paused = ~a.paused]
      [] code = "KeyS" -> on_single_step([a EXCEPT !.paused = TRUE])
      [] OTHER -> a

\* AppEventHandler::window_event
window_event(a, event) ==
    CASE event.type = "CloseRequested" -> [a EXCEPT !.exiting = TRUE]
      [] event.type = "CursorMoved" -> show_cursor(a)
      [] event.type = "Focused" ->
            IF event.focused THEN [a EXCEPT !.redraw_requested = TRUE] ELSE a
      [] event.type = "KeyboardInput" ->
            IF event.state = "Released" /\ ~event.repeat
            THEN window_event_key(a, event.code)
            ELSE a
      [] event.type = "MouseInput" ->
            IF event.button = "Left" /\ event.state = "Released"
            THEN LET clicked == on_mouse_click(a, event.inside)
                 IN  IF clicked.panicked THEN clicked ELSE show_cursor(clicked)
            ELSE a
      [] event.type = "RedrawRequested" -> draw(a)
      [] OTHER -> a

\* The history fields after `event` took the handler from a to after.
Handled(a, after, event) ==
    [after EXCEPT !.event = event,
                  !.before = [created |-> a.created, paused |-> a.paused,
                              time_step_frame |-> a.time_step_frame,
                              generation |-> a.generation, frames |-> a.frames],
                  !.frames = IF event.type = "new_events" /\ a.created /\ ~a.paused
                             THEN IF after.generation # a.generation THEN 0 ELSE a.frames + 1
                             ELSE a.frames]

\* animate: AppEventHandler::new beside a world not yet built.
InitApp == InitOps /\ size = GridSize(1, 1) /\ kind = "Conway" /\ rand = None

\* winit calls resumed; the window exists from here on.
Resumed ==
    /\ ~app.panicked
    /\ app' = Handled(app, resumed(app), [type |-> "resumed"])
    /\ app'.generation <= MaxGenerations
    /\ UNCHANGED <<size, kind, sources, cells, next_cells, rand, pc, row_rands, row_col,
                   updates, invocations, steps, callCells, callRand, passCells,
                   seedCells, seedRand, lastOp>>

\* winit starts an iteration of the event loop.
NewEvents ==
    /\ ~app.panicked
    /\ \E expired \in BOOLEAN :
          app' = Handled(app, new_events(app, expired), [type |-> "new_events"])
    /\ app'.generation <= MaxGenerations
    /\ UNCHANGED <<size, kind, sources, cells, next_cells, rand, pc, row_rands, row_col,
                   updates, invocations, steps, callCells, callRand, passCells,
                   seedCells, seedRand, lastOp>>

\* winit hands over an event of the window, which resumed has created.
WindowEvent ==
    /\ ~app.panicked
    /\ app.created
    /\ \E event \in WindowEvents : app' = Handled(app, window_event(app, event), event)
    /\ app'.generation <= MaxGenerations
    /\ UNCHANGED <<size, kind, sources, cells, next_cells, rand, pc, row_rands, row_col,
                   updates, invocations, steps, callCells, callRand, passCells,
                   seedCells, seedRand, lastOp>>

NextApp ==
    \/ Resumed
    \/ NewEvents
    \/ WindowEvent

SpecApp == InitApp /\ [][NextApp]_vars

(***************************************************************************)
(* Neighborhood2 of evo-grid/src/world.rs: the neighborhood with the       *)
(* 3x3-local accessor.  rows and cols hold the grid indexes of the three   *)
(* rows and columns around the center, taken modulo the grid's size.       *)
(***************************************************************************)
\* Neighborhood2::modulo: val.rem_euclid(max)
modulo(val, max) == val % max

\* Neighborhood2::adjacent_indexes
adjacent_indexes(cell_index, max) ==
    <<modulo(cell_index - 1, max), modulo(cell_index + 1, max)>>

\* Neighborhood2::new
Neighborhood2_new(center, sz) ==
    LET rows == adjacent_indexes(center.row, sz.height)
        cols == adjacent_indexes(center.col, sz.width)
    IN  [rows |-> <<rows[1], center.row, rows[2]>>,
         cols |-> <<cols[1], center.col, cols[2]>>]

\* Neighborhood2::cell(row, col), row and col in 0..2: the Loc it indexes.
Neighborhood2_cell(n, row, col) == Loc(n.rows[row + 1], n.cols[col + 1])

\* Neighborhood2::for_neighbor_cells: the Locs of the cells passed to f, in
\* the order of the calls of for_cell.
Neighborhood2_for_neighbor_cells(n) ==
    <<Neighborhood2_cell(n, 0, 0), Neighborhood2_cell(n, 0, 1),
      Neighborhood2_cell(n, 0, 2), Neighborhood2_cell(n, 1, 0),
      Neighborhood2_cell(n, 1, 2), Neighborhood2_cell(n, 2, 0),
      Neighborhood2_cell(n, 2, 1), Neighborhood2_cell(n, 2, 2)>>

(***************************************************************************)
(* Reference: one generation computed row after row, column after column, *)
(* each row with its own fork, and its n-fold iteration from the seed.     *)
(***************************************************************************)
RECURSIVE SeqRow(_, _, _, _, _)
SeqRow(r, col, cs, row, rnd) ==
    IF col = size.width
    THEN row
    ELSE LET res == update_cell(Loc(r, col), cs, row, rnd)
         IN  SeqRow(r, col + 1, cs, res.row, res.rand)

RECURSIVE SeqRows(_, _, _, _, _)
SeqRows(r, n, cs, ncs, forks) ==
    IF r = n
    THEN ncs
    ELSE SeqRows(r + 1, n, cs,
                 WithRow(ncs, size, r,
                         SeqRow(r, 0, cs, par_rows_mut(ncs, size)[r + 1], forks[r + 1])),
                 forks)

Generation(cs, rnd) ==
    LET hooked == other_update(cs, copy_from(cs, cs))
        forked == multi_fork_option(rnd, ForkCount)
    IN  [cells |-> SeqRows(0, Min(size.height, Len(forked.forks)),
                           hooked.cells, hooked.next_cells, forked.forks),
         rand |-> forked.rand]

RECURSIVE Generations(_)
Generations(n) ==
    IF n = 0
    THEN [cells |-> seedCells, rand |-> seedRand]
    ELSE LET prior == Generations(n - 1)
         IN  Generation(prior.cells, prior.rand)

\* The GridCell::update calls of the running update, as <<loc, call>> pairs.
Calls ==
    UNION {{<<loc, invocations[loc][k]>> : k \in 1..Len(invocations[loc])} :
             loc \in DOMAIN invocations}

\* Row r has a task that has transitioned some, but not all, of its cells.
MidRow(r) ==
    /\ pc = "rows"
    /\ r + 1 \in DOMAIN row_col
    /\ 0 < row_col[r + 1]
    /\ row_col[r + 1] < size.width

(***************************************************************************)
(* C1.  During the row-parallel pass, under every interleaving of the row  *)
(* tasks, the current cell and every neighbor cell handed to a transition  *)
(* are the values the current buffer held when the pass began; a value a   *)
(* row task has written to next is never among them.                       *)
(***************************************************************************)
C1_ReadsArePriorGeneration ==
    \A lc \in Calls :
        /\ lc[2].cell = index(passCells, size, lc[1])
        /\ \A i \in 1..Len(lc[2].neighborhood) :
              lc[2].neighborhood[i].cell =
                  index(passCells, size, lc[2].neighborhood[i].loc)

\* Two row tasks are under way; in one of them a cell was transitioned after
\* its west neighbor, whose next value differs from its current value.
C1_Witness ==
    \E lc \in Calls, r \in 0..(size.height - 1) :
        /\ r # lc[1].row
        /\ MidRow(r)
        /\ lc[1].col > 0
        /\ \E i \in 1..Len(lc[2].neighborhood) :
              LET n == lc[2].neighborhood[i].loc
              IN  /\ n = Loc(lc[1].row, lc[1].col - 1)
                  /\ index(next_cells, size, n) # index(passCells, size, n)

(***************************************************************************)
(* C2.  For every grid size, one update invokes the cell transition        *)
(* exactly once for every Loc with row < height and col < width, and for   *)
(* no other location.                                                      *)
(***************************************************************************)
C2_EveryCellOnce ==
    pc = "swap" =>
        /\ DOMAIN invocations = Locs(size)
        /\ \A loc \in DOMAIN invocations : Len(invocations[loc]) = 1

(***************************************************************************)
(* C3.  The next generation an update produces is a function of the prior *)
(* generation, the state of the caller's stream and the grid size: under   *)
(* every interleaving of the row tasks the pass ends with the next buffer  *)
(* and the caller's stream that the row-after-row computation yields.      *)
(***************************************************************************)
C3_SameGenerationUnderEveryInterleaving ==
    pc = "swap" =>
        /\ next_cells = Generation(callCells, callRand).cells
        /\ rand = Generation(callCells, callRand).rand

\* A pass is complete in which the tasks of two rows each drew from their
\* stream for a creature, and some creature did not survive.
C3_Witness ==
    /\ pc = "swap"
    /\ kind = "EvoSubstance"
    /\ \E a, b \in Calls :
          /\ a[1].row # b[1].row
          /\ IsSome(a[2].cell.creature)
          /\ IsSome(b[2].cell.creature)
    /\ next_cells # callCells

(***************************************************************************)
(* C4.  When the caller passes a stream, update forks exactly one          *)
(* sub-stream per row (height forks in total), the i-th fork is the one    *)
(* handed to row i, and all forks are taken before any row task begins.    *)
(***************************************************************************)
C4_OneForkPerRow ==
    (pc = "rows" /\ IsSome(callRand) /\ \A i \in DOMAIN row_col : row_col[i] = 0) =>
        /\ Len(row_rands) = size.height
        /\ row_rands = multi_fork_option(callRand, size.height).forks
        /\ DOMAIN row_col = 1..size.height

(***************************************************************************)
(* C5.  Each update performs its steps in this order and each exactly      *)
(* once: copy current into next, the hook, the forks, the per-cell         *)
(* transitions, the swap.                                                  *)
(***************************************************************************)
C5_StepsInOrder ==
    LET n == Len(steps)
    IN  /\ n >= 1 => steps[1] = "copy_from"
        /\ n >= 2 => steps[2] = "other_update"
        /\ n >= 3 => steps[3] = "multi_fork"
        /\ n >= 4 => steps[4] = "update_cell"
        /\ \A i \in 5..n :
              \/ steps[i] = "update_cell" /\ steps[i - 1] = "update_cell"
              \/ steps[i] = "swap" /\ steps[i - 1] = "update_cell" /\ i = n
        /\ (pc = "idle" /\ updates > 0) => (n >= 5 /\ steps[n] = "swap")
        /\ pc = "swap" => (n >= 4 /\ steps[n] = "update_cell")

\* An update of an EvoWorld with a source has returned.
C5_Witness ==
    /\ pc = "idle"
    /\ updates = 1
    /\ sources # <<>>
    /\ Len(steps) = area(size) + 4

TorusLoc(loc, dr, dc, sz) ==
    Loc((loc.row + sz.height + dr) % sz.height, (loc.col + sz.width + dc) % sz.width)

C7_ToroidalNeighborSet ==
    \A lc \in Calls :
        {lc[2].neighborhood[i].loc : i \in 1..Len(lc[2].neighborhood)} =
            {TorusLoc(lc[1], dr, dc, size) :
                <<dr, dc>> \in ((-1..1) \X (-1..1)) \ {<<0, 0>>}}

(***************************************************************************)
(* C8.  For every center, on an edge or in a corner too,                   *)
(* for_neighbor_cells calls f exactly 8 times, on the neighbors in the     *)
(* order NW, N, NE, W, E, SW, S, SE.                                       *)
(***************************************************************************)
CompassOrder ==
    << <<-1, -1>>, <<-1, 0>>, <<-1, 1>>, <<0, -1>>, <<0, 1>>,
       <<1, -1>>, <<1, 0>>, <<1, 1>> >>

C8_EightNeighborsInOrder ==
    \A lc \in Calls :
        /\ Len(lc[2].neighborhood) = 8
        /\ \A i \in 1..Len(lc[2].neighborhood) :
              lc[2].neighborhood[i].loc =
                  TorusLoc(lc[1], CompassOrder[i][1], CompassOrder[i][2], size)

(***************************************************************************)
(* C9.  A 3x3 grid with exactly one live cell at (1, 1) and the rule       *)
(* "alive next iff exactly 1 live neighbor now" has, after one update,     *)
(* cell (1, 1) dead and all eight other cells alive.                       *)
(***************************************************************************)
LoneCenterSeed ==
    /\ kind = "Lone"
    /\ size = GridSize(3, 3)
    /\ seedCells = [i \in 1..9 |-> [alive |-> (i = 5)]]

C9_LoneCenterExample ==
    (LoneCenterSeed /\ pc = "idle" /\ updates = 1) =>
        \A loc \in Locs(size) :
            index(cells, size, loc).alive = (loc # Loc(1, 1))

\* The first update of the example grid has returned.
C9_Witness ==
    /\ LoneCenterSeed
    /\ pc = "idle"
    /\ updates = 1
    /\ index(seedCells, size, Loc(1, 1)).alive
    /\ ~index(cells, size, Loc(1, 1)).alive

(***************************************************************************)
(* C10.  After update returns, the current buffer holds the generation    *)
(* this call's transitions wrote and the next buffer holds the generation  *)
(* that was current before the call; after n calls the current buffer is   *)
(* the n-fold application of the one-generation step to the seeded grid.   *)
(***************************************************************************)
C10_CurrentIsLatestGeneration ==
    pc = "idle" =>
        /\ cells = Generations(updates).cells
        /\ updates > 0 =>
              /\ cells = Generation(callCells, callRand).cells
              /\ next_cells = callCells
              /\ callCells = Generations(updates - 1).cells

\* Two updates have returned, each with a generation unlike the one before.
C10_Witness ==
    /\ pc = "idle"
    /\ updates = 2
    /\ cells # callCells
    /\ callCells # seedCells
    /\ next_cells = callCells

(***************************************************************************)
(* C11.  From the start of WorldGrid::update until the swap no cell of     *)
(* the current buffer changes: while the call runs, and just before the    *)
(* swap, current equals the current buffer at the start of the call (the   *)
(* hooks of the repository write next only).                               *)
(***************************************************************************)
C11_CurrentUnchangedUntilSwap ==
    pc \in {"copy_from", "other_update", "update_cells", "rows", "swap"} =>
        cells = callCells

\* The pass is over, it wrote a generation unlike the current one into next,
\* and the swap has not happened yet.
C11_Witness ==
    /\ pc = "swap"
    /\ next_cells # cells
    /\ cells = callCells
    /\ \E lc \in Calls : index(next_cells, size, lc[1]) # lc[2].cell

(***************************************************************************)
(* C12.  When the hook has written nothing, the next-cell slot handed to   *)
(* a cell's transition holds that cell's current value; so a cell whose    *)
(* transition leaves its slot as it got it has the same value after the    *)
(* update as before, and when no transition changes its slot the update    *)
(* leaves the whole grid unchanged.                                        *)
(***************************************************************************)
\* What the transition recorded as lc left in its next-cell slot.
Written(lc) ==
    GridCell_update(kind, lc[2].cell,
                    [i \in 1..Len(lc[2].neighborhood) |-> lc[2].neighborhood[i].cell],
                    lc[2].next_cell, lc[2].rand).next

C12_NextSlotHoldsCurrent ==
    sources = <<>> =>
        /\ \A lc \in Calls : lc[2].next_cell = lc[2].cell
        /\ (pc = "idle" /\ updates > 0) =>
              /\ \A lc \in Calls :
                    Written(lc) = lc[2].next_cell =>
                        index(cells, size, lc[1]) = index(callCells, size, lc[1])
              /\ (\A lc \in Calls : Written(lc) = lc[2].next_cell) => cells = callCells

\* An update has returned in which a seeded cell's transition left its slot
\* alone while another cell's transition changed its own.
C12_Witness ==
    /\ sources = <<>>
    /\ pc = "idle"
    /\ updates > 0
    /\ \E lc \in Calls :
          /\ lc[2].cell # DefaultCell(kind)
          /\ Written(lc) = lc[2].next_cell
          /\ index(cells, size, lc[1]) = lc[2].cell
    /\ \E lc \in Calls : Written(lc) # lc[2].next_cell

(***************************************************************************)
(* C13.  For all w, h >= 1, WorldGridCells::new creates exactly w * h      *)
(* cells, all equal to the default cell, and Loc::grid_index maps the Locs *)
(* with row < h and col < w one-to-one onto the indices 0..w*h-1, with     *)
(* index = row * w + col.                                                  *)
(***************************************************************************)
C13_NewAndGridIndex ==
    LET fresh == WorldGridCells_new(size, kind)
    IN  /\ Len(fresh) = size.width * size.height
        /\ \A i \in 1..Len(fresh) : fresh[i] = DefaultCell(kind)
        /\ updates = 0 /\ pc = "idle" => next_cells = fresh
        /\ \A loc \in Locs(size) :
              grid_index(loc, size) = Some(loc.row * size.width + loc.col)
        /\ \A loc, other \in Locs(size) :
              grid_index(loc, size) = grid_index(other, size) => loc = other
        /\ {Unwrap(grid_index(loc, size)) : loc \in Locs(size)} =
              0..(size.width * size.height - 1)

\* A freshly constructed grid that is neither square nor a single row or
\* column, seeded in its last cell.
C13_Witness ==
    /\ updates = 0
    /\ pc = "idle"
    /\ size.width > size.height
    /\ size.height > 1
    /\ Len(next_cells) = size.width * size.height
    /\ cells[Len(cells)] # DefaultCell(kind)

InBounds(loc) == loc.row < size.height /\ loc.col < size.width

\* The flat, row-major index of loc.
FlatIndex(loc) == loc.row * size.width + loc.col

(***************************************************************************)
(* C14.  cell(loc) and cell_mut(loc) return a cell if and only if          *)
(* loc.row < height and loc.col < width, and then it is the cell at flat   *)
(* index row * width + col; for any other loc they return None and never   *)
(* wrap around to another cell.                                            *)
(***************************************************************************)
C14_CellBoundsChecked ==
    ~is_empty(size) =>
        /\ \A loc \in ProbeLocs(size) :
              /\ cell(cells, size, loc) =
                    (IF InBounds(loc) THEN Some(cells[FlatIndex(loc) + 1]) ELSE None)
              /\ cell_mut(cells, size, loc) =
                    (IF InBounds(loc) THEN Some(FlatIndex(loc)) ELSE None)
        /\ lastOp.op = "cell_mut" =>
              /\ lastOp.result =
                    (IF InBounds(lastOp.loc) THEN Some(FlatIndex(lastOp.loc)) ELSE None)
              /\ cells =
                    (IF InBounds(lastOp.loc)
                     THEN [lastOp.cells EXCEPT ![FlatIndex(lastOp.loc) + 1] = lastOp.value]
                     ELSE lastOp.cells)

\* cell_mut was called with the Loc one past the end of row 0 of a grid
\* that has a row 1, and gave None.
C14_Witness ==
    /\ lastOp.op = "cell_mut"
    /\ lastOp.loc = Loc(0, size.width)
    /\ size.height > 1
    /\ lastOp.result = None
    /\ cells = lastOp.cells

(***************************************************************************)
(* C15.  Indexing a cell buffer (Index or IndexMut) with a Loc whose       *)
(* row >= height or col >= width panics, and the buffer contents are the   *)
(* same as before the access.                                              *)
(***************************************************************************)
C15_IndexOutOfBoundsPanics ==
    (lastOp.op \in {"index", "index_mut"} /\ ~InBounds(lastOp.loc)) =>
        /\ lastOp.panic
        /\ pc = "panic"
        /\ cells = lastOp.cells
        /\ next_cells = lastOp.next_cells

\* grid.cells[loc] = c with the Loc one past the end of row 0 of a grid that
\* has a row 1 has panicked.
C15_Witness ==
    /\ lastOp.op = "index_mut"
    /\ lastOp.loc = Loc(0, size.width)
    /\ size.height > 1
    /\ pc = "panic"

(***************************************************************************)
(* C16.  Constructing a WorldGrid or a WorldGridCells with width = 0 or    *)
(* height = 0 aborts with a panic; no grid with zero area is ever          *)
(* constructed.                                                            *)
(***************************************************************************)
C16_EmptySizePanics ==
    /\ \A w \in 0..MaxWidth, h \in 0..MaxHeight :
          /\ WorldGridCells_new_checked(GridSize(w, h), kind).panic = (w = 0 \/ h = 0)
          /\ WorldGrid_new(GridSize(w, h), kind).panic = (w = 0 \/ h = 0)
    /\ lastOp.op = "new" =>
          /\ lastOp.panic = (lastOp.size.width = 0 \/ lastOp.size.height = 0)
          /\ lastOp.panic => pc = "panic" /\ cells = <<>> /\ next_cells = <<>>
    /\ (lastOp.op # "new" \/ pc # "panic") =>
          /\ size.width > 0
          /\ size.height > 0
          /\ Len(cells) > 0
          /\ Len(next_cells) > 0

\* WorldGrid::new was called with a width of 0 and a positive height.
C16_Witness ==
    /\ lastOp.op = "new"
    /\ lastOp.size.width = 0
    /\ lastOp.size.height > 0
    /\ pc = "panic"

(***************************************************************************)
(* C18.  After any sequence of update, cell_mut and copy_from operations   *)
(* on a WorldGrid constructed with size (w, h), both the current and the   *)
(* next buffer still have exactly w * h cells and the grid's size is still *)
(* (w, h).                                                                 *)
(***************************************************************************)
C18_LengthsNeverChange ==
    /\ [](Len(cells) = size.width * size.height
          /\ Len(next_cells) = size.width * size.height)
    /\ [][size' = size /\ Len(cells') = Len(cells)
          /\ Len(next_cells') = Len(next_cells)]_vars

\* Two updates have returned, a cell_mut before them left its mark, and a
\* copy_from between the grid's buffers has just been made.
C18_Witness ==
    /\ updates = 2
    /\ lastOp.op = "copy_from"
    /\ ~lastOp.panic
    /\ size.width # size.height
    /\ cells # WorldGridCells_new(size, kind)
    /\ Len(cells) = size.width * size.height

(***************************************************************************)
(* C17.  Calling BitSet8Gene::merge or FractionGene::merge with an empty   *)
(* parent list is signaled by a panic; neither returns a gene value for    *)
(* zero parents.                                                           *)
(***************************************************************************)
C17_MergeOfNoParentsPanics ==
    (lastOp.op \in {"BitSet8Gene::merge", "FractionGene::merge"}
        /\ lastOp.genes = <<>>) =>
        lastOp.outcome = "panic"

(***************************************************************************)
(* C20.  Two Random streams that start in the same state and are each      *)
(* forked k times in the same order yield, for every i < k, i-th forks     *)
(* that produce identical sequences of draws; the parents are also left    *)
(* in identical states.                                                    *)
(***************************************************************************)
\* The first n outputs of a stream in state r.
RECURSIVE Draws(_, _)
Draws(r, n) == IF n = 0 THEN <<>> ELSE <<r>> \o Draws(RngAdvance(r), n - 1)

C21_NextBoolAtTheEnds ==
    lastOp.op = "next_bool" =>
        /\ lastOp.p = <<0, 1>> => \A i \in 1..Len(lastOp.values) : ~lastOp.values[i]
        /\ lastOp.p = <<1, 1>> => \A i \in 1..Len(lastOp.values) : lastOp.values[i]

\* MaxDraws calls of next_bool(0.0) on a stream that started in state 0, the
\* lowest draw there is.
C21_Witness ==
    /\ lastOp.op = "next_bool"
    /\ lastOp.p = <<0, 1>>
    /\ lastOp.start = 0
    /\ Len(lastOp.values) = MaxDraws

(***************************************************************************)
(* C22.  For every 8-bit genome g, BitSet8Gene::merge of 1..=8 parents     *)
(* that all carry g, with mutation_odds = 0.0, returns g; in particular    *)
(* the merge of the single-parent list [g] is g.                           *)
(***************************************************************************)
C22_UnanimousParentsMergeToTheirGenome ==
    (/\ lastOp.op = "BitSet8Gene::merge"
     /\ lastOp.genes # <<>>
     /\ \A k \in 1..Len(lastOp.genes) : lastOp.genes[k] = lastOp.genes[1]
     /\ lastOp.mutation_odds = <<0, 1>>) =>
        /\ lastOp.outcome = "value"
        /\ lastOp.result.value = lastOp.genes[1]

\* MaxParents parents with one genome of mixed bits, merged with a stream.
C22_Witness ==
    /\ lastOp.op = "BitSet8Gene::merge"
    /\ Len(lastOp.genes) = MaxParents
    /\ \A k \in 1..Len(lastOp.genes) : lastOp.genes[k] = 90
    /\ lastOp.mutation_odds = <<0, 1>>
    /\ lastOp.rand # None
    /\ lastOp.result.value = 90

(***************************************************************************)
(* C23.  In BitSet8Gene::merge with 1..=8 parents and mutation_odds = 0.0  *)
(* each of the 8 result bits is decided on its own: it is 0 when no parent *)
(* has the bit set, 1 when every parent has it set, and otherwise the      *)
(* outcome of one Bernoulli draw with probability ones/(ones+zeros), so    *)
(* that both 0 and 1 are possible when the parents disagree.               *)
(***************************************************************************)
\* The parents that have bit i set, and those that have not.
Ones(genes, i) == Cardinality({k \in 1..Len(genes) : is_bit_set(genes[k], i)})

Zeros(genes, i) == Len(genes) - Ones(genes, i)

Disagree(genes, i) == Ones(genes, i) > 0 /\ Zeros(genes, i) > 0

\* The state of a stream after n draws.
RECURSIVE AdvanceBy(_, _)
AdvanceBy(r, n) == IF n = 0 THEN r ELSE AdvanceBy(RngAdvance(r), n - 1)

\* The draws made before the vote on bit i when mutation_odds is below 1: a
\* mutation draw for each lower bit and a vote draw for each lower bit the
\* parents disagree on.
DrawsBefore(genes, i) ==
    i + Cardinality({j \in 0..(i - 1) : Disagree(genes, j)})

\* The streams with which the merge of genes sets bit i.
StreamsSetting(genes, i, mutation_odds) ==
    {r \in 0..(RngMod - 1) :
        is_bit_set(BitSet8Gene_merge(genes, Some(r), mutation_odds).value, i)}

C23_ProportionalVotePerBit ==
    (/\ lastOp.op = "BitSet8Gene::merge"
     /\ lastOp.genes # <<>>
     /\ lastOp.mutation_odds = <<0, 1>>) =>
        /\ lastOp.rand # None => lastOp.outcome = "value"
        /\ lastOp.outcome = "value" =>
              \A i \in 0..7 :
                 LET ones == Ones(lastOp.genes, i)
                     zeros == Zeros(lastOp.genes, i)
                     bit == is_bit_set(lastOp.result.value, i)
                     set == Cardinality(StreamsSetting(lastOp.genes, i, <<0, 1>>))
                 IN  /\ ones = 0 => ~bit
                     /\ zeros = 0 => bit
                     /\ Disagree(lastOp.genes, i) =>
                           /\ lastOp.rand # None
                           /\ bit = next_bool(AdvanceBy(Unwrap(lastOp.rand),
                                                        DrawsBefore(lastOp.genes, i)),
                                              <<ones, ones + zeros>>).value
                           /\ 0 < set /\ set < RngMod
                           /\ ones * RngMod <= set * (ones + zeros)
                           /\ set * (ones + zeros) < ones * RngMod + ones + zeros

\* MaxParents parents, one of which alone has bit 0 set, and the merge sets
\* bit 0; the bits all agree on are in the same merge.
C23_Witness ==
    /\ lastOp.op = "BitSet8Gene::merge"
    /\ Len(lastOp.genes) = MaxParents
    /\ lastOp.mutation_odds = <<0, 1>>
    /\ lastOp.outcome = "value"
    /\ Ones(lastOp.genes, 0) = 1
    /\ is_bit_set(lastOp.result.value, 0)
    /\ \E i \in 1..7 : Ones(lastOp.genes, i) = 0
    /\ \E i \in 1..7 : Zeros(lastOp.genes, i) = 0

(***************************************************************************)
(* C24.  FractionGene::merge with rand = None returns exactly the          *)
(* arithmetic mean of the parents' values (the sum of the values divided   *)
(* by the number of parents), for every list of 1..=8 parents and every    *)
(* mutation_stdev.                                                         *)
(***************************************************************************)
\* The product of the denominators of the values, and the sum of the values
\* in units of one over that product.
RECURSIVE DenProduct(_)
DenProduct(values) ==
    IF values = <<>> THEN 1 ELSE values[1][2] * DenProduct(Tail(values))

RECURSIVE NumSum(_, _)
NumSum(values, den) ==
    IF values = <<>>
    THEN 0
    ELSE values[1][1] * (den \div values[1][2]) + NumSum(Tail(values), den)

\* value = (sum of values) / Len(values)
IsMean(value, values) ==
    /\ value[2] > 0
    /\ value[1] * Len(values) * DenProduct(values)
           = NumSum(values, DenProduct(values)) * value[2]

C24_MeanWithoutStream ==
    (/\ lastOp.op = "FractionGene::merge"
     /\ lastOp.genes # <<>>
     /\ lastOp.rand = None) =>
        /\ lastOp.outcome = "value"
        /\ IsMean(lastOp.result.value, lastOp.genes)
        /\ lastOp.result.rand = None

\* MaxParents parents of which one has value 0 and another value 1, merged
\* without a stream and with a positive mutation_stdev.
C24_Witness ==
    /\ lastOp.op = "FractionGene::merge"
    /\ lastOp.rand = None
    /\ Len(lastOp.genes) = MaxParents
    /\ \E j, k \in 1..Len(lastOp.genes) :
          lastOp.genes[j] = <<0, 1>> /\ lastOp.genes[k] = <<1, 1>>
    /\ lastOp.mutation_stdev = <<1, 2>>
    /\ lastOp.outcome = "value"
    /\ ~FracLeq(lastOp.result.value, <<0, 1>>)
    /\ ~FracLeq(<<1, 1>>, lastOp.result.value)

(***************************************************************************)
(* C25.  Every FractionGene returned by FractionGene::merge from 1..=8     *)
(* parents whose values lie in [0,1] has a value in [0,1], both when rand  *)
(* is present (the truncated-normal resample) and when it is absent (the   *)
(* mean).                                                                  *)
(***************************************************************************)
C25_MergedFractionInUnitRange ==
    (/\ lastOp.op = "FractionGene::merge"
     /\ lastOp.genes # <<>>
     /\ \A k \in 1..Len(lastOp.genes) : contains(UnitRange, lastOp.genes[k])) =>
        /\ lastOp.outcome = "value"
        /\ contains(UnitRange, lastOp.result.value)

\* A merge with a stream whose first normal sample around the mean falls
\* outside [0,1], so that the resampling loop has discarded it.
C25_Witness ==
    /\ lastOp.op = "FractionGene::merge"
    /\ lastOp.genes # <<>>
    /\ lastOp.rand # None
    /\ ~contains(UnitRange,
                 next_normal(Unwrap(lastOp.rand),
                             FracDiv(FracSum(lastOp.genes), Len(lastOp.genes)),
                             lastOp.mutation_stdev).value)
    /\ lastOp.outcome = "value"
    /\ contains(UnitRange, lastOp.result.value)

(***************************************************************************)
(* C26.  During one update, the transition invoked for the cell at (r,c)   *)
(* can change only the "next" slot of (r,c): every other cell of "next"    *)
(* is unchanged by that invocation, and no two row tasks ever write the    *)
(* same cell of "next" (the task of row r writes in chunk r only).         *)
(***************************************************************************)
\* The step is update_cell at (r, c) in the task of row r.
IsUpdateCellAt(r, c) ==
    /\ r + 1 \in DOMAIN row_col
    /\ row_col[r + 1] = c
    /\ row_col' = [row_col EXCEPT ![r + 1] = c + 1]

C26_OnlyOwnNextSlotWritten ==
    [][pc = "rows" =>
          \E r \in 0..(size.height - 1), c \in 0..(size.width - 1) :
             /\ IsUpdateCellAt(r, c)
             /\ Len(next_cells') = Len(next_cells)
             /\ \A i \in 1..Len(next_cells) :
                   next_cells'[i] # next_cells[i] =>
                      /\ Some(i - 1) = grid_index(Loc(r, c), size)
                      /\ (i - 1) \div size.width = r]_vars

\* Two row tasks are both past their first cell and the pass has changed a
\* slot of "next".
C26_Witness ==
    /\ pc = "rows"
    /\ \E q, r \in DOMAIN row_col : q # r /\ row_col[q] > 0 /\ row_col[r] > 0
    /\ next_cells # cells

(***************************************************************************)
(* C27.  rows_mut and par_rows_mut yield exactly height slices, each of    *)
(* exactly width cells; the i-th slice covers the flat indices             *)
(* i*width .. (i+1)*width - 1, so every cell of the buffer belongs to      *)
(* exactly one slice.                                                      *)
(***************************************************************************)
\* The flat indices of a buffer, in place of its cells.
FlatIndices(v) == [k \in 1..Len(v) |-> k - 1]

\* rows cuts v into height slices of width cells, the i-th over the flat
\* indices i*width .. (i+1)*width - 1 of v.
IsRowPartition(rows, slots, v) ==
    /\ Len(rows) = size.height
    /\ Len(slots) = size.height
    /\ \A i \in 0..(size.height - 1) :
          /\ Len(rows[i + 1]) = size.width
          /\ slots[i + 1] = [j \in 1..size.width |-> i * size.width + j - 1]
          /\ \A j \in 1..size.width : rows[i + 1][j] = v[slots[i + 1][j] + 1]
    /\ \A k \in 0..(Len(v) - 1) :
          \A i \in 1..Len(slots), j \in 1..size.width :
             slots[i][j] = k <=>
                (i = (k \div size.width) + 1 /\ j = (k % size.width) + 1)

\* On every grid that was constructed, whatever its cells have been set to.
C27_RowsPartitionTheBuffer ==
    pc # "panic" =>
        /\ IsRowPartition(rows_mut(cells, size),
                          rows_mut(FlatIndices(cells), size), cells)
        /\ IsRowPartition(par_rows_mut(cells, size),
                          par_rows_mut(FlatIndices(cells), size), cells)
        /\ IsRowPartition(rows_mut(next_cells, size),
                          rows_mut(FlatIndices(next_cells), size), next_cells)
        /\ IsRowPartition(par_rows_mut(next_cells, size),
                          par_rows_mut(FlatIndices(next_cells), size), next_cells)

\* A grid wider than high in which a cell has been set, so that its rows
\* differ from one another.
C27_Witness ==
    /\ pc # "panic"
    /\ size.width > size.height
    /\ size.height > 1
    /\ \E q, r \in 1..size.height :
          par_rows_mut(cells, size)[q] # par_rows_mut(cells, size)[r]

(***************************************************************************)
(* C28.  Random::multi_fork_option(rand, count) returns a list of exactly  *)
(* count entries: when rand is present every entry is a stream and the     *)
(* i-th entry is the result of the i-th fork taken from rand (forks taken  *)
(* in index order 0..count, advancing rand count times); when rand is      *)
(* absent every entry is absent and rand stays absent.                     *)
(***************************************************************************)
\* The stream r after k forks have been taken from it.
RECURSIVE ForkedTimes(_, _)
ForkedTimes(r, k) == IF k = 0 THEN r ELSE fork(ForkedTimes(r, k - 1)).parent

C28_MultiForkInIndexOrder ==
    lastOp.op = "multi_fork_option" =>
        /\ Len(lastOp.forks) = lastOp.fork_count
        /\ lastOp.rand = None =>
              /\ \A i \in 1..Len(lastOp.forks) : lastOp.forks[i] = None
              /\ lastOp.rand_after = None
        /\ lastOp.rand # None =>
              /\ \A i \in 1..Len(lastOp.forks) :
                    lastOp.forks[i]
                       = Some(fork(ForkedTimes(Unwrap(lastOp.rand), i - 1)).child)
              /\ lastOp.rand_after
                    = Some(ForkedTimes(Unwrap(lastOp.rand), lastOp.fork_count))

\* MaxForks + 1 forks of a present stream, no two of them alike.
C28_Witness ==
    /\ lastOp.op = "multi_fork_option"
    /\ lastOp.rand # None
    /\ lastOp.fork_count = MaxForks + 1
    /\ \A i, j \in 1..Len(lastOp.forks) : i # j => lastOp.forks[i] # lastOp.forks[j]
    /\ lastOp.rand_after # lastOp.rand

(***************************************************************************)
(* C29.  In BitSet8Gene::merge, for each of the 8 bit positions, after the *)
(* vote for that bit is decided, a separate mutation draw with probability *)
(* mutation_odds is made and the bit is flipped if and only if that draw   *)
(* succeeds, whatever the vote's outcome; hence with mutation_odds = 1.0   *)
(* the result is the bitwise complement of the voted genome and with       *)
(* mutation_odds = 0.0 it is the voted genome.                             *)
(***************************************************************************)
\* The draws made on the stream before the vote on bit i: a vote draw for
\* each lower bit the parents disagree on, and a mutation draw for each
\* lower bit unless mutation_odds is 1, which next_bool answers undrawn.
VotePosition(genes, i, mutation_odds) ==
    Cardinality({j \in 0..(i - 1) : Disagree(genes, j)})
        + (IF mutation_odds[1] = mutation_odds[2] THEN 0 ELSE i)

\* The vote on bit i: unanimous, or drawn from the stream rnd at its place.
VotedBit(genes, rnd, i, mutation_odds) ==
    IF Ones(genes, i) = 0 THEN FALSE
    ELSE IF Zeros(genes, i) = 0 THEN TRUE
    ELSE next_bool(AdvanceBy(Unwrap(rnd), VotePosition(genes, i, mutation_odds)),
                   <<Ones(genes, i), Len(genes)>>).value

\* The mutation draw of bit i, made after the vote on bit i.
MutationDraw(genes, rnd, i, mutation_odds) ==
    next_bool(AdvanceBy(Unwrap(rnd),
                        VotePosition(genes, i, mutation_odds)
                            + (IF Disagree(genes, i) THEN 1 ELSE 0)),
              mutation_odds).value

\* The statement as it stands, for mutation_odds = 1.0: the result is the
\* complement of the voted genome, with or without a stream.
C29_MutationFlipsEveryBit ==
    (/\ lastOp.op = "BitSet8Gene::merge"
     /\ lastOp.genes # <<>>
     /\ lastOp.outcome = "value"
     /\ lastOp.mutation_odds = <<1, 1>>) =>
        \A i \in 0..7 :
           is_bit_set(lastOp.result.value, i)
              = ~VotedBit(lastOp.genes, lastOp.rand, i, lastOp.mutation_odds)

\* Amended: the mutation draw is made, and decides the flip, when rand is
\* present; when rand is absent no mutation draw is made and the result is
\* the voted genome, whatever mutation_odds is.
C29_MutationFlipsWhenStreamPresent ==
    (/\ lastOp.op = "BitSet8Gene::merge"
     /\ lastOp.genes # <<>>
     /\ lastOp.outcome = "value") =>
        \A i \in 0..7 :
           LET bit == is_bit_set(lastOp.result.value, i)
               voted == VotedBit(lastOp.genes, lastOp.rand, i, lastOp.mutation_odds)
           IN  /\ lastOp.rand = None => bit = voted
               /\ lastOp.rand # None =>
                     LET flip == MutationDraw(lastOp.genes, lastOp.rand, i,
                                              lastOp.mutation_odds)
                     IN  /\ bit = (voted # flip)
                         /\ lastOp.mutation_odds = <<1, 1>> => bit = ~voted
                         /\ lastOp.mutation_odds = <<0, 1>> => bit = voted

\* A merge with a stream and mutation_odds strictly between 0 and 1 in which
\* the mutation draws flip a bit voted 1 and a bit voted 0 and leave another
\* bit as voted.
C29_Witness ==
    /\ lastOp.op = "BitSet8Gene::merge"
    /\ lastOp.genes # <<>>
    /\ lastOp.outcome = "value"
    /\ lastOp.rand # None
    /\ lastOp.mutation_odds \notin {<<0, 1>>, <<1, 1>>}
    /\ \E i, j, k \in 0..7 :
          /\ VotedBit(lastOp.genes, lastOp.rand, i, lastOp.mutation_odds)
          /\ ~is_bit_set(lastOp.result.value, i)
          /\ ~VotedBit(lastOp.genes, lastOp.rand, j, lastOp.mutation_odds)
          /\ is_bit_set(lastOp.result.value, j)
          /\ is_bit_set(lastOp.result.value, k)
                = VotedBit(lastOp.genes, lastOp.rand, k, lastOp.mutation_odds)

(***************************************************************************)
(* C30.  The center cell is never passed to f by for_neighbor_cells, for   *)
(* every grid size including grids of width or height 1 or 2, and the      *)
(* center is the cell returned by the 3x3-local accessor cell(1,1).        *)
(***************************************************************************)
\* The Locs in a sequence of Locs.
Passed(locs) == {locs[i] : i \in 1..Len(locs)}

C30_CenterNeverANeighbor ==
    \A center \in Locs(size) :
       /\ center \notin Passed(for_neighbor_cells(center, size))
       /\ LET n == Neighborhood2_new(center, size)
          IN  /\ Neighborhood2_cell(n, 1, 1) = center
              /\ center \notin Passed(Neighborhood2_for_neighbor_cells(n))

(***************************************************************************)
(* C31.  Random::next_truncated_normal returns only a value inside the     *)
(* given inclusive range: it is the first normal sample that falls in the  *)
(* range, every earlier out-of-range sample being discarded; it            *)
(* terminates if some sample eventually falls in the range and otherwise   *)
(* loops forever.                                                          *)
(***************************************************************************)
\* The k-th (0-based) normal sample the stream of the call yields.
SampleAt(k) ==
    next_normal(AdvanceBy(lastOp.rand, k), lastOp.mean, lastOp.stdev).value

\* low <= x <= high in the order of the numbers; false when x is the NaN.
Within(range, x) ==
    /\ x[2] > 0
    /\ range[1][1] * x[2] <= x[1] * range[1][2]
    /\ x[1] * range[2][2] <= range[2][1] * x[2]

\* A stream has RngMod states, so what it yields later it has yielded in
\* its first RngMod samples.
C31_FirstSampleInRange ==
    lastOp.op = "next_truncated_normal" =>
        /\ lastOp.result.returns <=>
              \E k \in 0..(RngMod - 1) : Within(lastOp.range, SampleAt(k))
        /\ lastOp.result.returns =>
              \E k \in 0..(RngMod - 1) :
                 /\ lastOp.result.value = SampleAt(k)
                 /\ Within(lastOp.range, SampleAt(k))
                 /\ \A j \in 0..(k - 1) : ~Within(lastOp.range, SampleAt(j))
                 /\ lastOp.result.rand = AdvanceBy(lastOp.rand, k + 1)

\* A call that discarded at least two samples before it returned one.
C31_Witness ==
    /\ lastOp.op = "next_truncated_normal"
    /\ lastOp.result.returns
    /\ ~Within(lastOp.range, SampleAt(0))
    /\ ~Within(lastOp.range, SampleAt(1))
    /\ Within(lastOp.range, lastOp.result.value)

(***************************************************************************)
(* C32.  For every grid size with width >= 1 and height >= 1, every seeded *)
(* grid contents and every number of consecutive WorldGrid::update calls,  *)
(* no out-of-bounds cell access and hence no out-of-bounds panic ever      *)
(* occurs inside the engine.                                               *)
(***************************************************************************)
\* The Locs update_cell reads through Index<Loc> when the task of row r
\* makes its next call: cells[loc] and the cells of the neighborhood.
PendingReads(r) ==
    LET loc == Loc(r, row_col[r + 1])
    IN  {loc} \cup Passed(for_neighbor_cells(loc, size))

\* The one panic there is, is that of a copy_from the world itself makes
\* from a buffer of another length, outside update.
C32_NoOutOfBoundsAccess ==
    /\ pc = "panic" => lastOp.op = "copy_from" /\ lastOp.panic
    /\ pc = "copy_from" => ~copy_from_panics(next_cells, cells)
    /\ pc = "rows" =>
          \A r \in 0..(Len(row_col) - 1) :
             /\ r < Len(par_rows_mut(next_cells, size))
             /\ r < Len(row_rands)
             /\ row_col[r + 1] < size.width =>
                   /\ \A loc \in PendingReads(r) : ~index_panics(PassCells, size, loc)
                   /\ row_col[r + 1] < Len(par_rows_mut(next_cells, size)[r + 1])
    /\ \A loc \in DOMAIN invocations :
          /\ ~index_panics(cells, size, loc)
          /\ \A k \in 1..Len(invocations[loc]) :
                \A i \in 1..Len(invocations[loc][k].neighborhood) :
                   ~index_panics(cells, size, invocations[loc][k].neighborhood[i].loc)

\* A later update of a grid at least 2 wide and 2 high in which the task of
\* the last row is about to update the last cell, a corner.
C32_Witness ==
    /\ updates > 0
    /\ size.width > 1
    /\ size.height > 1
    /\ pc = "rows"
    /\ size.height \in DOMAIN row_col
    /\ row_col[size.height] = size.width - 1

(***************************************************************************)
(* C33.  BitSet8Gene::merge called with rand = None returns the common     *)
(* genome unmutated (whatever mutation_odds is) when all parents agree on  *)
(* every bit, and panics when the parents disagree on at least one bit     *)
(* position.                                                               *)
(***************************************************************************)
C33_MergeWithoutStream ==
    (/\ lastOp.op = "BitSet8Gene::merge"
     /\ lastOp.genes # <<>>
     /\ lastOp.rand = None) =>
        IF \E i \in 0..7 : Disagree(lastOp.genes, i)
        THEN lastOp.outcome = "panic"
        ELSE /\ lastOp.outcome = "value"
             /\ lastOp.result.value = lastOp.genes[1]
             /\ lastOp.result.rand = None

\* MaxParents parents that disagree on one bit only, merged without a
\* stream: the merge panics.
C33_Witness ==
    /\ lastOp.op = "BitSet8Gene::merge"
    /\ Len(lastOp.genes) = MaxParents
    /\ lastOp.rand = None
    /\ Cardinality({i \in 0..7 : Disagree(lastOp.genes, i)}) = 1
    /\ lastOp.outcome = "panic"

\* The live cells among the up to 8 cells around loc in the buffer cs (the
\* cells of the grid at row and column distance at most 1, loc left out).
LiveAround(cs, loc) ==
    Cardinality({l \in Locs(size) :
                    /\ l # loc
                    /\ l.row - loc.row \in {-1, 0, 1}
                    /\ l.col - loc.col \in {-1, 0, 1}
                    /\ cs[FlatIndex(l) + 1].alive})

\* Conway's rule for the cell at loc of the generation cs.
ConwayRule(cs, loc) ==
    IF cs[FlatIndex(loc) + 1].alive
    THEN LiveAround(cs, loc) \in {2, 3}
    ELSE LiveAround(cs, loc) = 3

\* C34: after each ConwayWorld update a cell is alive iff, in the previous
\* generation, it was alive with 2 or 3 live neighbors or dead with exactly
\* 3; the counts are those of the previous generation only.
C34_ConwayWorldRule ==
    (lastOp.op = "ConwayWorld::update") =>
        \A loc \in Locs(size) :
            cells[FlatIndex(loc) + 1].alive <=> ConwayRule(callCells, loc)

\* A ConwayWorld update in which one cell was born, one died and one
\* survived, the born cell lying before one of its neighbors that died.
C34_Witness ==
    /\ lastOp.op = "ConwayWorld::update"
    /\ \E born, died, kept \in Locs(size) :
          /\ ~callCells[FlatIndex(born) + 1].alive /\ cells[FlatIndex(born) + 1].alive
          /\ callCells[FlatIndex(died) + 1].alive /\ ~cells[FlatIndex(died) + 1].alive
          /\ callCells[FlatIndex(kept) + 1].alive /\ cells[FlatIndex(kept) + 1].alive
          /\ FlatIndex(born) < FlatIndex(died)

\* Whether the cell at loc of the buffer cs holds a creature.
Occupied(cs, loc) == IsSome(cs[FlatIndex(loc) + 1].creature)

\* The creatures among the up to 8 cells around loc in the buffer cs.
CreaturesAround(cs, loc) ==
    Cardinality({l \in Locs(size) :
                    /\ l # loc
                    /\ l.row - loc.row \in {-1, 0, 1}
                    /\ l.col - loc.col \in {-1, 0, 1}
                    /\ Occupied(cs, l)})

\* C35: an EvoConwayWorld seeded with Creature::conway() genomes only, with
\* MUTATION_ODDS = 0: after every update every creature has that genome and
\* a cell is occupied iff, in the generation before, it was occupied with 2
\* or 3 neighbor creatures or empty with exactly 3.
C35_EvoConwayIsConway ==
    (kind = "EvoConway" /\ pc = "idle" /\ updates > 0) =>
        \A loc \in Locs(size) :
            /\ Occupied(cells, loc) =>
                  Unwrap(cells[FlatIndex(loc) + 1].creature) = Creature_conway
            /\ Occupied(cells, loc) <=>
                  IF Occupied(callCells, loc)
                  THEN CreaturesAround(callCells, loc) \in {2, 3}
                  ELSE CreaturesAround(callCells, loc) = 3

\* The cell at flat index i of the buffer now holds what it held in the
\* buffer before, or has lost its creature: same substance, and the creature
\* is gone or the same creature with the same genes.
Shrunk(before, now) ==
    /\ Len(now) = Len(before)
    /\ \A i \in 1..Len(now) :
          /\ now[i].substance = before[i].substance
          /\ now[i].creature \in {None, before[i].creature}

\* C36: in EvoSubstanceWorld no update creates a creature; against the
\* generation before and against the seeded grid, the cells holding a
\* creature only get fewer, a creature that is still there has its genes
\* unchanged, and every cell's substance is unchanged.
C36_CreaturesOnlyShrink ==
    kind = "EvoSubstance" => Shrunk(callCells, cells) /\ Shrunk(seedCells, cells)

\* An EvoSubstanceWorld update after which one seeded creature is gone and
\* another is still there, next to an empty cell.
C36_Witness ==
    /\ kind = "EvoSubstance"
    /\ pc = "idle"
    /\ updates > 0
    /\ \E i, j \in 1..Len(cells) :
          /\ IsSome(callCells[i].creature) /\ cells[i].creature = None
          /\ IsSome(callCells[j].creature) /\ cells[j].creature = callCells[j].creature
    /\ \E loc \in Locs(size) :
          /\ callCells[FlatIndex(loc) + 1].creature = None
          /\ \E k \in 1..Len(for_neighbor_cells(loc, size)) :
                IsSome(callCells[FlatIndex(for_neighbor_cells(loc, size)[k]) + 1].creature)

\* What an EvoWorld update makes of the creature slot c of a cell: a
\* creature of age at most 3 is one update older, an older one is gone, and
\* an empty slot stays empty.
Aged(c) ==
    IF c = None THEN None
    ELSE IF Unwrap(c).age > 3 THEN None
    ELSE Some([Unwrap(c) EXCEPT !.age = @ + 1])

\* C37: each EvoWorld update makes every creature of age at most 3 one
\* older, removes every creature older than 3 and creates none.
C37_CreaturesAgeAndDie ==
    (kind = "Evo" /\ pc = "idle" /\ updates > 0) =>
        \A i \in 1..Len(cells) : cells[i].creature = Aged(callCells[i].creature)

\* The last event was a frame: new_events with an App that was not paused.
UnpausedFrame ==
    app.event.type = "new_events" /\ app.before.created /\ ~app.before.paused

\* The last event was the release, not a repeat, of the key `code`.
Released(code) ==
    /\ app.event.type = "KeyboardInput"
    /\ app.event.code = code
    /\ app.event.state = "Released"
    /\ ~app.event.repeat

\* C38: time_step_frame stays within 0..=TIME_STEP_FRAMES; an unpaused frame
\* below TIME_STEP_FRAMES cross-fades and increments the counter without
\* updating the world; a frame at TIME_STEP_FRAMES updates the world once
\* and resets the counter; so a frame updates the world exactly when
\* TIME_STEP_FRAMES frames went before it since the last such update.
C38_FrameCounter ==
    /\ app.time_step_frame \in 0..TIME_STEP_FRAMES
    /\ UnpausedFrame =>
          /\ app.before.time_step_frame < TIME_STEP_FRAMES =>
                /\ app.generation = app.before.generation
                /\ app.time_step_frame = app.before.time_step_frame + 1
                /\ app.blend = app.before.time_step_frame
          /\ app.before.time_step_frame = TIME_STEP_FRAMES =>
                /\ app.generation = app.before.generation + 1
                /\ app.time_step_frame = 0
          /\ app.generation # app.before.generation <=>
                app.before.frames = TIME_STEP_FRAMES

\* The second time step of a run: a frame at TIME_STEP_FRAMES that took the
\* world from its second generation to its third.
C38_Witness ==
    /\ UnpausedFrame
    /\ app.before.time_step_frame = TIME_STEP_FRAMES
    /\ app.before.generation = 2
    /\ app.generation = 3
    /\ app.time_step_frame = 0

\* C39: while paused a frame event changes neither the world nor the frame
\* counter; releasing P toggles paused; releasing S leaves paused true and
\* advances the world by one generation; after creation no event but an
\* unpaused frame and the release of S updates the world.
C39_PauseAndSingleStep ==
    /\ (app.event.type = "new_events" /\ app.before.paused) =>
          /\ app.generation = app.before.generation
          /\ app.time_step_frame = app.before.time_step_frame
    /\ Released("KeyP") =>
          /\ app.paused = ~app.before.paused
          /\ app.generation = app.before.generation
    /\ Released("KeyS") =>
          /\ app.paused
          /\ app.generation = app.before.generation + 1
          /\ app.time_step_frame = app.before.time_step_frame
    /\ (app.before.created /\ app.generation # app.before.generation) =>
          UnpausedFrame \/ Released("KeyS")

\* S released in the middle of a cross-fade while already paused: the world
\* is one generation on and the handler is still paused.
C39_Witness ==
    /\ Released("KeyS")
    /\ app.before.paused
    /\ app.before.time_step_frame > 0
    /\ app.paused
    /\ app.generation = app.before.generation + 1
====
